---- MODULE Spec2Model ----
(***************************************************************************)
(* Verification model of control.py (GDI control center):                  *)
(*   - the student roster (Student, StudentDatabase) with its consistency  *)
(*     check, the merge operations union / difference / filter, add, and   *)
(*     the reading and writing of students files,                          *)
(*   - the row-aggregation splitter of create_group_spreadsheets and the   *)
(*     files that the create command writes,                               *)
(*   - spreadsheet_cell_id and parse_grading_points,                       *)
(*   - the overview of create_title_group_spreadsheet,                     *)
(*   - the grade table of command_init_cli and Config.from_xml.            *)
(***************************************************************************)
EXTENDS Integers, Sequences, FiniteSets, TLC

(***************************************************************************)
(* Bounds of the model                                                     *)
(***************************************************************************)
\* largest number of exercises of the assignment whose grid is generated
MaxExercises == 3
\* largest number of criterion rows per exercise
MaxCriteria == 40
\* largest matriculation number
MaxMatrnr == 2
\* largest number of Students in a collection handed to StudentDatabase(...)
MaxStudents == 2
\* largest number of keyword arguments passed to filter()
MaxPredicates == 2
\* largest column and largest row passed to spreadsheet_cell_id
MaxColumn == 676
MaxRow == 10
\* largest number of rows of a grading table
MaxTableRows == 4
\* largest number of assignments of the configuration
MaxAssignments == 2
\* longest first name
MaxNameLen == 3
\* largest number of students of the group an overview is generated for
MaxGroupSize == 3
\* largest number of assignments of the grading scheme of an overview
MaxSchemeLen == 3
\* largest total of points a grade formula is evaluated for
MaxTotal == 13

(***************************************************************************)
(* Program constants                                                       *)
(***************************************************************************)
\* create_group_spreadsheets: max_values_per_sum = 12
max_values_per_sum == 12
\* create_group_spreadsheets: assert len(consider[0]) < 120
RowLimit == 120

VARIABLES
    grading,    \* criteria per exercise of the assignment (grading[assdata['name']])
    phase,      \* position inside create_group_spreadsheets
    rowid,      \* create_group_spreadsheets: rowid
    consider,   \* create_group_spreadsheets: consider (list of buckets)
    i,          \* create_group_spreadsheets: i (0-based bucket index)
    rows,       \* the criterion-row references as accumulated before the splitter
    err,        \* exception that ended the generation, "" if none
    sheet,      \* the rows written from the row "Gesamt" on
    heap,       \* the Student objects, by identity
    cand,       \* a collection of Students handed to StudentDatabase(...)
    a,          \* a roster (StudentDatabase), NoDb before it is constructed
    b,          \* a second roster, NoDb before it is loaded
    op,         \* the last call made
    res,        \* what the last call returned or raised
    cell,       \* a call of spreadsheet_cell_id: its arguments and its result
    gp,         \* a call of parse_grading_points: the table read and its result
    gen,        \* a command that writes files: "spreadsheets create" for one
                \* group (the grading scheme of config.assignments, the
                \* assignment the loop is at, how far it is) or write_xml
    files,      \* the output files: before the command, now, and the answer
                \* given to the overwrite question
    doc,        \* the element <students> that StudentDatabase.to_xml returned
    stud,       \* a Student whose names and wikiname are set and read
    ov,         \* a call of create_title_group_spreadsheet: its arguments, the
                \* student the loop is at, the local grade and the rows written
    cfg         \* the grade table of a configuration: typed into the init
                \* dialog or loaded by Config.from_xml

svars == <<grading, phase, rowid, consider, i, rows, err, sheet>>
rvars == <<heap, cand, a, b, op, res>>
\* the variables of the functions that are called on their own
xvars == <<cell, gp, gen, files, doc, stud, ov, cfg>>

vars == <<grading, phase, rowid, consider, i, rows, err, sheet, heap, cand, a, b, op, res,
          cell, gp, gen, files, doc, stud, ov, cfg>>

(***************************************************************************)
(* Helpers on sequences                                                    *)
(***************************************************************************)
\* the concatenation of the sequences of ss; ''.join(ss) for a list of str
RECURSIVE Flatten(_)
Flatten(ss) == IF ss = <<>> THEN <<>> ELSE Head(ss) \o Flatten(Tail(ss))

RECURSIVE SumSeq(_)
SumSeq(s) == IF s = <<>> THEN 0 ELSE Head(s) + SumSeq(Tail(s))

Range(s) == {s[k] : k \in DOMAIN s}

\* list.pop(): the list without its last element
Front(s) == SubSeq(s, 1, Len(s) - 1)

(***************************************************************************)
(* Text: a str is a sequence of characters (one-character strings)         *)
(***************************************************************************)
Uppers == << "A", "B", "C", "D", "E", "F", "G", "H", "I", "J", "K", "L", "M",
             "N", "O", "P", "Q", "R", "S", "T", "U", "V", "W", "X", "Y", "Z" >>
Lowers == << "a", "b", "c", "d", "e", "f", "g", "h", "i", "j", "k", "l", "m",
             "n", "o", "p", "q", "r", "s", "t", "u", "v", "w", "x", "y", "z" >>
Digits == << "0", "1", "2", "3", "4", "5", "6", "7", "8", "9" >>

\* characters outside ASCII: u with diaeresis, sharp s and the fullwidth
\* hyphen-minus
UUml == "U+00FC"
SharpS == "U+00DF"
WideHyphen == "U+FF0D"

IndexOf(seq, c) == CHOOSE k \in DOMAIN seq : seq[k] = c

\* str.lower() and str.upper() of one character
LowerChar(c) == IF c \in Range(Uppers) THEN Lowers[IndexOf(Uppers, c)] ELSE c
UpperChar(c) == IF c \in Range(Lowers) THEN Uppers[IndexOf(Lowers, c)] ELSE c

\* str.lower()
Lower(str) == [k \in DOMAIN str |-> LowerChar(str[k])]

\* str.replace(old, new) for single characters
Replace(str, old, new) == [k \in DOMAIN str |-> IF str[k] = old THEN new ELSE str[k]]

RECURSIVE NormalizeAscii(_)
NormalizeAscii(str) ==
    LET \* unicodedata.normalize('NFKD', c).encode('ascii', 'ignore') of one
        \* character: ASCII stays, the base letter of a decomposable character
        \* stays, a character without ASCII decomposition is dropped
        AsciiOfChar(c) ==
            IF c = UUml THEN << "u" >>
            ELSE IF c = SharpS THEN << >>
            ELSE IF c = WideHyphen THEN << "-" >>
            ELSE << c >>
    IN
    IF str = << >> THEN << >>
    ELSE AsciiOfChar(Head(str)) \o NormalizeAscii(Tail(str))

\* str.split(): the maximal runs of non-blank characters
Split(str) ==
    LET RECURSIVE SplitAcc(_, _)
        SplitAcc(rest, cur) ==
            IF rest = << >> THEN (IF cur = << >> THEN << >> ELSE << cur >>)
            ELSE IF Head(rest) = " "
                 THEN (IF cur = << >> THEN << >> ELSE << cur >>) \o SplitAcc(Tail(rest), << >>)
                 ELSE SplitAcc(Tail(rest), Append(cur, Head(rest)))
    IN  SplitAcc(str, << >>)

(***************************************************************************)
(* class Student                                                           *)
(*                                                                         *)
(* A Student object is a record of its attributes; gid is the identity of  *)
(* the set object bound to its attribute group (two Students with the same *)
(* gid share one set object).  A datetime is [sec, us]: seconds and        *)
(* microseconds.                                                           *)
(***************************************************************************)
\* the 'create wikiname out of first and last name' algorithm
derived_wikiname(s) ==
    LET \* str.title(): a cased character is put in upper case when the character
        \* before it is not cased, in lower case otherwise
        Title(str) ==
            LET \* a cased character (str.title() looks at the character before)
                IsCased(c) == c \in Range(Uppers) \cup Range(Lowers) \cup {UUml, SharpS}
            IN
            [k \in DOMAIN str |->
                IF k > 1 /\ IsCased(str[k - 1]) THEN LowerChar(str[k])
                ELSE UpperChar(str[k])]
    IN
    LET name0 == s.firstname \o << " " >> \o s.lastname
        name1 == Replace(name0, "-", " ")
        name2 == Replace(name1, "'", " ")
        name3 == NormalizeAscii(name2)
        names == [k \in DOMAIN Split(name3) |-> Title(Split(name3)[k])]
    IN  Flatten(names)

\* a wikiname that is derived whatever is stored
wikiname_ignoring_override(s) == derived_wikiname(s)

\* Student.wikiname (property): the stored override if there is one, else
\* the name derived from first and last name
wikiname(s) ==
    IF s._wikiname # << >> THEN s._wikiname ELSE derived_wikiname(s)

\* a copy that binds the set object of the original instead of a new set
copy_sharing_group(s, g) ==
    [matrnr |-> s.matrnr, group |-> s.group, gid |-> s.gid,
     lastname |-> s.lastname, firstname |-> s.firstname,
     degree |-> s.degree, regdate |-> s.regdate, email |-> s.email,
     grade |-> s.grade, _wikiname |-> s._wikiname]

\* Student.copy(): a new Student with every attribute of s; its group is a
\* new set object (identity g) with the same elements
copy(s, g) ==
    [matrnr |-> s.matrnr, group |-> s.group, gid |-> g,
     lastname |-> s.lastname, firstname |-> s.firstname,
     degree |-> s.degree, regdate |-> s.regdate, email |-> s.email,
     grade |-> s.grade, _wikiname |-> s._wikiname]

\* Student.__eq__
StudentEq(s, t) == s.matrnr = t.matrnr

\* Student.__hash__: hash of str(matrnr) + str(firstname) + str(lastname);
\* the concatenated text stands for its hash value
StudentHash(s) == << s.matrnr >> \o s.firstname \o s.lastname

\* datetime comparison
DateLess(d, e) == d.sec < e.sec \/ (d.sec = e.sec /\ d.us < e.us)

\* the attribute values of a Student without the identity of its set object
Fields(s) ==
    [matrnr |-> s.matrnr, group |-> s.group,
     lastname |-> s.lastname, firstname |-> s.firstname,
     degree |-> s.degree, regdate |-> s.regdate, email |-> s.email,
     grade |-> s.grade, _wikiname |-> s._wikiname]

(***************************************************************************)
(* The heap of Student objects.  heap[o] is the object with identity o;    *)
(* a collection (list or set of Students) is [kind, students] with         *)
(* students the sequence of the identities it holds; a set holds them in   *)
(* ascending order of identity and iterates in any order.                  *)
(***************************************************************************)

\* identity of the next set object created
NextGid(h) ==
    LET Max(S) == CHOOSE m \in S : \A n \in S : n <= m
    IN
    1 + Max({h[o].gid : o \in DOMAIN h} \cup {0})

\* the object s is created
Alloc(h, s) == Append(h, s)

RECURSIVE SortedSeq(_)
SortedSeq(S) ==
    IF S = {} THEN << >>
    ELSE LET m == CHOOSE x \in S : \A y \in S : x <= y
         IN  << m >> \o SortedSeq(S \ {m})

Perms(S) ==
    { f \in [1..Cardinality(S) -> S] : \A x \in S : \E k \in DOMAIN f : f[k] = x }

\* the orders in which a for loop may visit a collection
Orders(coll) ==
    IF coll.kind = "set" THEN Perms(Range(coll.students)) ELSE { coll.students }

EmptySet == [kind |-> "set", students |-> << >>]

\* set.add(o): o is not added when the set holds an element with the same
\* hash that is equal to it
PySetAdd(h, S, o) ==
    IF \E t \in S : StudentHash(h[t]) = StudentHash(h[o]) /\ StudentEq(h[t], h[o])
    THEN S ELSE S \cup {o}

RECURSIVE PySetOf(_, _)
\* set(iterable) for the sequence seq of objects
PySetOf(h, seq) ==
    IF seq = << >> THEN {}
    ELSE PySetAdd(h, PySetOf(h, Front(seq)), seq[Len(seq)])

(***************************************************************************)
(* class StudentDatabase: a roster is a collection held in self.students   *)
(***************************************************************************)
NoError == [exc |-> "", what |-> "", matrnr |-> 0, name |-> << >>, student |-> 0]

NoDb == [kind |-> "none", students |-> << >>]

\* the positions of a list of keys that repeat a key of an earlier position
Repeats(keys) == { k \in DOMAIN keys : \E j \in 1..(k - 1) : keys[j] = keys[k] }

Min(S) == CHOOSE m \in S : \A n \in S : m <= n

\* a check that forgets the rule on the groups
consistency_check_without_groups(h, seq) ==
    LET nums == [k \in DOMAIN seq |-> h[seq[k]].matrnr]
        names == [k \in DOMAIN seq |-> wikiname(h[seq[k]])]
    IN  IF Repeats(nums) # {}
        THEN [NoError EXCEPT !.exc = "ValueError", !.what = "Matriculation number",
                             !.matrnr = nums[Min(Repeats(nums))]]
        ELSE IF Repeats(names) # {}
        THEN [NoError EXCEPT !.exc = "ValueError", !.what = "Wikiname",
                             !.name = names[Min(Repeats(names))]]
        ELSE NoError

\* a check whose rule on the groups counts the group 0 as well
consistency_check_counting_group_0(h, seq) ==
    LET nums == [k \in DOMAIN seq |-> h[seq[k]].matrnr]
        names == [k \in DOMAIN seq |-> wikiname(h[seq[k]])]
        multi == { k \in DOMAIN seq : Cardinality(h[seq[k]].group) > 1 }
    IN  IF Repeats(nums) # {}
        THEN [NoError EXCEPT !.exc = "ValueError", !.what = "Matriculation number",
                             !.matrnr = nums[Min(Repeats(nums))]]
        ELSE IF Repeats(names) # {}
        THEN [NoError EXCEPT !.exc = "ValueError", !.what = "Wikiname",
                             !.name = names[Min(Repeats(names))]]
        ELSE IF multi # {}
        THEN [NoError EXCEPT !.exc = "ValueError", !.what = "Groups",
                             !.name = wikiname(h[seq[Min(multi)]]),
                             !.student = seq[Min(multi)]]
        ELSE NoError

\* StudentDatabase.consistency_check(db), db visited in the order seq:
\* the exception it raises, NoError if it returns
consistency_check(h, seq) ==
    LET nums == [k \in DOMAIN seq |-> h[seq[k]].matrnr]
        names == [k \in DOMAIN seq |-> wikiname(h[seq[k]])]
        multi == { k \in DOMAIN seq : Cardinality(h[seq[k]].group \ {0}) > 1 }
    IN  IF Repeats(nums) # {}
        THEN [NoError EXCEPT !.exc = "ValueError", !.what = "Matriculation number",
                             !.matrnr = nums[Min(Repeats(nums))]]
        ELSE IF Repeats(names) # {}
        THEN [NoError EXCEPT !.exc = "ValueError", !.what = "Wikiname",
                             !.name = names[Min(Repeats(names))]]
        ELSE IF multi # {}
        THEN [NoError EXCEPT !.exc = "ValueError", !.what = "Groups",
                             !.name = wikiname(h[seq[Min(multi)]]),
                             !.student = seq[Min(multi)]]
        ELSE NoError

\* the heap after s.copy() for every s of seq, in this order; the copies
\* are the objects Len(h) + 1 .. Len(h) + Len(seq)
RECURSIVE CopyAll(_, _)
CopyAll(h, seq) ==
    IF seq = << >> THEN h
    ELSE LET h1 == CopyAll(h, Front(seq))
         IN  Alloc(h1, copy(h1[seq[Len(seq)]], NextGid(h1)))

\* the result of a call that returns a roster or raises
Returned(h, db) == [ok |-> TRUE, heap |-> h, db |-> db, error |-> NoError]
Raised(h, e) == [ok |-> FALSE, heap |-> h, db |-> NoDb, error |-> e]

\* a constructor that does not call consistency_check
StudentDatabaseUnchecked(h, students) ==
    LET coll == IF students.students = << >> THEN EmptySet ELSE students
        size == Len(coll.students)
        h1 == CopyAll(h, coll.students)
        copies == [k \in 1..size |-> Len(h) + k]
        self == IF coll.kind = "set"
                THEN [kind |-> "set", students |-> SortedSeq(PySetOf(h1, copies))]
                ELSE [kind |-> "list", students |-> copies]
    IN  IF size # Len(self.students)
        THEN { Raised(h1, [NoError EXCEPT !.exc = "ValueError", !.what = "lost"]) }
        ELSE { Returned(h1, self) }

\* StudentDatabase.__init__(students): the possible results
StudentDatabase(h, students) ==
    LET coll == IF students.students = << >> THEN EmptySet ELSE students
        size == Len(coll.students)
        h1 == CopyAll(h, coll.students)
        copies == [k \in 1..size |-> Len(h) + k]
        self == IF coll.kind = "set"
                THEN [kind |-> "set", students |-> SortedSeq(PySetOf(h1, copies))]
                ELSE [kind |-> "list", students |-> copies]
    IN  IF size # Len(self.students)
        THEN { Raised(h1, [NoError EXCEPT !.exc = "ValueError", !.what = "lost"]) }
        ELSE { IF consistency_check(h1, ord) = NoError
               THEN Returned(h1, self)
               ELSE Raised(h1, consistency_check(h1, ord)) : ord \in Orders(self) }

\* a membership test that compares every attribute
ContainsByFields(h, db, member) ==
    \E t \in Range(db.students) : Fields(h[t]) = Fields(h[member])

\* StudentDatabase.__contains__(member)
Contains(h, db, member) ==
    \E t \in Range(db.students) : h[t].matrnr = h[member].matrnr

\* a merge that keeps the groups of exactly one of the two records
MergeGroupsExclusive(h, target, s) ==
    [h EXCEPT ![target] = [@ EXCEPT !.group = (@ \cup h[s].group) \ (@ \cap h[s].group),
                                    !.gid = NextGid(h)]]

\* a merge that replaces the groups by those of the other record
MergeGroupsOfOther(h, target, s) ==
    [h EXCEPT ![target] = [@ EXCEPT !.group = h[s].group, !.gid = NextGid(h)]]

\* union: assoc[s.matrnr].group = assoc[s.matrnr].group.union(s.group);
\* set.union creates a new set object
MergeGroups(h, target, s) ==
    [h EXCEPT ![target] = [@ EXCEPT !.group = @ \cup h[s].group, !.gid = NextGid(h)]]

\* StudentDatabase.union(other): the possible results
union(h, self, other) ==
    LET \* union: the loop over self.students; st = [heap, unionset, assoc]
        RECURSIVE UnionSelfLoop(_, _)
        UnionSelfLoop(st, seq) ==
            IF seq = << >> THEN st
            ELSE LET s == Head(seq)
                     h1 == Alloc(st.heap, copy(st.heap[s], NextGid(st.heap)))
                     c == Len(h1)
                     m == h1[c].matrnr
                 IN  UnionSelfLoop(
                         [heap |-> h1,
                          unionset |-> PySetAdd(h1, st.unionset, c),
                          assoc |-> [n \in DOMAIN st.assoc \cup {m} |->
                                        IF n = m THEN c ELSE st.assoc[n]]],
                         Tail(seq))
        \* union: the loop over other.students
        RECURSIVE UnionOtherLoop(_, _)
        UnionOtherLoop(st, seq) ==
            IF seq = << >> THEN st
            ELSE LET s == Head(seq)
                     h1 == Alloc(st.heap, copy(st.heap[s], NextGid(st.heap)))
                     c == Len(h1)
                     m == h1[s].matrnr
                 IN  IF m \in DOMAIN st.assoc
                     THEN UnionOtherLoop(
                              [st EXCEPT !.heap = MergeGroups(h1, st.assoc[m], s)],
                              Tail(seq))
                     ELSE UnionOtherLoop(
                              [st EXCEPT !.heap = h1,
                                         !.unionset = PySetAdd(h1, st.unionset, c)],
                              Tail(seq))
    IN
    LET st0 == [heap |-> h, unionset |-> {}, assoc |-> << >>]
        st1 == UnionSelfLoop(st0, self.students)
        st2 == UnionOtherLoop(st1, other.students)
    IN  StudentDatabase(st2.heap,
                        [kind |-> "set", students |-> SortedSeq(st2.unionset)])

\* StudentDatabase.difference(other): the possible results.
\* DifferenceLoop is the loop over self.students; st = [heap, diff]
difference(h, self, other) ==
    LET RECURSIVE DifferenceLoop(_, _)
        DifferenceLoop(st, seq) ==
            IF seq = << >> THEN st
            ELSE LET s == Head(seq)
                     h1 == Alloc(st.heap, copy(st.heap[s], NextGid(st.heap)))
                     c == Len(h1)
                 IN  IF ~ Contains(st.heap, other, s)
                     THEN DifferenceLoop([heap |-> h1, diff |-> PySetAdd(h1, st.diff, c)],
                                         Tail(seq))
                     ELSE DifferenceLoop(st, Tail(seq))
        end == DifferenceLoop([heap |-> h, diff |-> {}], self.students)
    IN  StudentDatabase(end.heap,
                        [kind |-> "set", students |-> SortedSeq(end.diff)])

(***************************************************************************)
(* StudentDatabase.filter: a keyword argument is << >> when it is left at  *)
(* None and << v >> when the value v is passed                             *)
(***************************************************************************)
FilterKeys == { "matrnr", "group", "firstname", "lastname", "wikiname",
                "degree", "regdate", "email", "grade", "regdate_smaller",
                "regdate_greater", "not_matrnr" }

\* "if x:" for an int, a str and a flag argument
IntTruthy(arg) == arg # << >> /\ arg[1] # 0
StrTruthy(arg) == arg # << >> /\ arg[1] # << >>
FlagTruthy(arg) == arg # << >> /\ arg[1]

\* StudentDatabase.filtered(db, selectors): the possible results.
\* Selected is all([selector(s) for selector in selectors]) for the
\* selectors that filter() appends for the keyword arguments kw;
\* FilteredLoop is the set subset after the loop over db in the order seq
filtered(h, db, kw) ==
    LET Selected(s) ==
            /\ IntTruthy(kw.matrnr) => s.matrnr = kw.matrnr[1]
            /\ IntTruthy(kw.not_matrnr) => s.matrnr # kw.not_matrnr[1]
            /\ IntTruthy(kw.group) => kw.group[1] \in s.group
            /\ StrTruthy(kw.firstname) => Lower(s.firstname) = Lower(kw.firstname[1])
            /\ StrTruthy(kw.lastname) => Lower(s.lastname) = Lower(kw.lastname[1])
            /\ StrTruthy(kw.wikiname) => wikiname(s) = kw.wikiname[1]
            /\ StrTruthy(kw.degree) => s.degree = kw.degree[1]
            /\ kw.regdate # << >> =>
                  IF FlagTruthy(kw.regdate_smaller) THEN DateLess(s.regdate, kw.regdate[1])
                  ELSE IF FlagTruthy(kw.regdate_greater) THEN DateLess(kw.regdate[1], s.regdate)
                  ELSE s.regdate = kw.regdate[1]
            /\ StrTruthy(kw.email) => s.email = kw.email[1]
            /\ IntTruthy(kw.grade) => s.grade = kw.grade[1]
        RECURSIVE FilteredLoop(_)
        FilteredLoop(seq) ==
            IF seq = << >> THEN {}
            ELSE LET subset == FilteredLoop(Front(seq))
                     s == seq[Len(seq)]
                 IN  IF Selected(h[s]) THEN PySetAdd(h, subset, s) ELSE subset
    IN  UNION { StudentDatabase(h, [kind |-> "set",
                                    students |-> SortedSeq(FilteredLoop(ord))]) :
                ord \in Orders(db) }

\* StudentDatabase.filter(**kw): the possible results
filter(h, self, kw) == filtered(h, self, kw)

(***************************************************************************)
(* Conversions between values and the text of an XML element or CSV cell.  *)
(* A text is a str; the text of an element without text is None, written   *)
(* << >> (an element is given no text when the text is empty).             *)
(***************************************************************************)

\* str(n) of an int
StrOfInt(n) ==
    LET RECURSIVE StrOfNat(_)
        StrOfNat(m) ==
            IF m < 10 THEN << Digits[m + 1] >>
            ELSE StrOfNat(m \div 10) \o << Digits[(m % 10) + 1] >>
    IN  IF n < 0 THEN << "-" >> \o StrOfNat(0 - n) ELSE StrOfNat(n)

IsDigits(str) == str # << >> /\ \A k \in DOMAIN str : str[k] \in Range(Digits)

RECURSIVE NatOfStr(_)
NatOfStr(str) ==
    IF str = << >> THEN 0
    ELSE 10 * NatOfStr(Front(str)) + (IndexOf(Digits, str[Len(str)]) - 1)

\* int(str, base=10) accepts a sign and digits
IsInt(str) ==
    \/ IsDigits(str)
    \/ Len(str) > 1 /\ str[1] \in {"-", "+"} /\ IsDigits(Tail(str))

IntOfStr(str) ==
    IF str[1] = "-" THEN 0 - NatOfStr(Tail(str))
    ELSE IF str[1] = "+" THEN NatOfStr(Tail(str))
    ELSE NatOfStr(str)

\* re.sub(r'\D', '', val)
RECURSIVE OnlyDigits(_)
OnlyDigits(str) ==
    IF str = << >> THEN << >>
    ELSE (IF Head(str) \in Range(Digits) THEN << Head(str) >> ELSE << >>)
         \o OnlyDigits(Tail(str))

Standardgruppe == << "s", "t", "a", "n", "d", "a", "r", "d", "g", "r", "u", "p", "p", "e" >>

\* the day and the minute of every datetime of the model, as isoformat()
\* writes them: "2014-10-18T23:47:"
DatePrefix == << "2", "0", "1", "4", "-", "1", "0", "-", "1", "8", "T",
                 "2", "3", ":", "4", "7", ":" >>

\* n written with w digits
RECURSIVE Padded(_, _)
Padded(n, w) ==
    IF w = 0 THEN << >>
    ELSE Padded(n \div 10, w - 1) \o << Digits[(n % 10) + 1] >>

\* datetime.isoformat(): the microseconds are written when they are not 0
IsoFormat(d) ==
    DatePrefix \o Padded(d.sec, 2)
    \o (IF d.us # 0 THEN << "." >> \o Padded(d.us, 6) ELSE << >>)

Exception(exc, what) == [NoError EXCEPT !.exc = exc, !.what = what]

(***************************************************************************)
(* Student: reading from and writing to XML.  An element is [tag, text].   *)
(***************************************************************************)

\* Student.set_from_xml(name, value, add=add) on the Student s, the next
\* new set object being g: [s, error].  value is << >> for None and
\* << str >> for a str.
set_from_xml(s, name, value, add, g) ==
    LET \* parse_date(datestr) succeeds; no text of the model has one of the three
        \* other formats that parse_date tries
        CanParseDate(str) ==
            LET \* parse_iso8601 succeeds: datestr[0:19] matches '%Y-%m-%dT%H:%M:%S'
                IsIso8601 ==
                    /\ Len(str) >= 19
                    /\ SubSeq(str, 1, 17) = DatePrefix
                    /\ IsDigits(SubSeq(str, 18, 19))
                    /\ NatOfStr(SubSeq(str, 18, 19)) < 62
            IN  IsIso8601
        \* parse_date(datestr)
        parse_date(str) ==
            LET \* parse_iso8601(datestr): what follows the seconds is cut off
                parse_iso8601 == [sec |-> NatOfStr(SubSeq(str, 18, 19)), us |-> 0]
            IN  parse_iso8601
    IN
    LET \* str(None)
        NoneStr == << "N", "o", "n", "e" >>
        XmlTags == { "matriculation-number", "group", "lastname", "firstname",
                     "degree-programme", "registration-date", "email", "grade",
                     "wikiname" }
    IN
    IF name \notin XmlTags THEN [s |-> s, error |-> Exception("KeyError", name)]
    ELSE IF name \in {"matriculation-number", "grade"}
    THEN IF value = << >> THEN [s |-> s, error |-> Exception("TypeError", name)]
         ELSE IF ~ IsInt(value[1]) THEN [s |-> s, error |-> Exception("ValueError", name)]
         ELSE IF name = "grade"
              THEN [s |-> [s EXCEPT !.grade = IntOfStr(value[1])], error |-> NoError]
              ELSE [s |-> [s EXCEPT !.matrnr = IntOfStr(value[1])], error |-> NoError]
    ELSE IF name = "group"
    THEN IF value = << >> THEN [s |-> s, error |-> Exception("AttributeError", name)]
         ELSE IF Lower(value[1]) # Standardgruppe /\ OnlyDigits(value[1]) = << >>
         THEN [s |-> s, error |-> Exception("ValueError", name)]
         ELSE LET gr == IF Lower(value[1]) = Standardgruppe THEN 0
                        ELSE NatOfStr(OnlyDigits(value[1]))
              IN  [s |-> [s EXCEPT !.group = IF add THEN {gr} \cup @ ELSE {gr},
                                   !.gid = g],
                   error |-> NoError]
    ELSE LET val == IF value = << >> THEN NoneStr ELSE value[1]
         IN  CASE name = "registration-date" ->
                    IF CanParseDate(val)
                    THEN [s |-> [s EXCEPT !.regdate = parse_date(val)], error |-> NoError]
                    ELSE [s |-> s, error |-> Exception("ValueError", name)]
               [] name = "lastname" -> [s |-> [s EXCEPT !.lastname = val], error |-> NoError]
               [] name = "firstname" -> [s |-> [s EXCEPT !.firstname = val], error |-> NoError]
               [] name = "degree-programme" -> [s |-> [s EXCEPT !.degree = val], error |-> NoError]
               [] name = "email" -> [s |-> [s EXCEPT !.email = val], error |-> NoError]
               [] name = "wikiname" -> [s |-> [s EXCEPT !._wikiname = val], error |-> NoError]

\* elem(tag, text): the element has a text when text is not empty
Element(tag, text) == [tag |-> tag, text |-> IF text = << >> THEN << >> ELSE << text >>]

\* Student.to_xml(): the children of the element <student>
to_xml(s) ==
    << Element("matriculation-number", StrOfInt(s.matrnr)) >>
    \o [k \in 1..Cardinality(s.group) |-> Element("group", StrOfInt(SortedSeq(s.group)[k]))]
    \o << Element("lastname", s.lastname),
          Element("firstname", s.firstname),
          Element("wikiname", wikiname(s)) >>
    \o (IF s.degree # << >> THEN << Element("degree-programme", s.degree) >> ELSE << >>)
    \o << Element("registration-date", IsoFormat(s.regdate)),
          Element("email", s.email) >>
    \o (IF s.grade # 0 THEN << Element("grade", StrOfInt(s.grade)) >> ELSE << >>)

\* the Student after set_from_xml for every element of children, or the
\* first exception: [s, error]
RECURSIVE SetAllFromXml(_, _, _, _)
SetAllFromXml(s, children, add, g) ==
    IF children = << >> THEN [s |-> s, error |-> NoError]
    ELSE LET before == SetAllFromXml(s, Front(children), add, g)
             child == children[Len(children)]
         IN  IF before.error # NoError THEN before
             ELSE set_from_xml(before.s, child.tag, child.text, add, g)

(***************************************************************************)
(* StudentDatabase.add, StudentDatabase.from_xml and parse_student_csv      *)
(***************************************************************************)
\* the result of a call on a roster: the roster after the call and the error
Done(h, db, e) == [ok |-> e = NoError, heap |-> h, db |-> db, error |-> e]

\* StudentDatabase.add(student): the possible results.  For a student whose
\* number is present, self.group is read, which a StudentDatabase has not.
add(h, self, student) ==
    IF Contains(h, self, student)
    THEN { Done(h, self, Exception("AttributeError", "group")) }
    ELSE IF self.kind # "set"
    THEN { Done(h, self, Exception("AttributeError", "add")) }
    ELSE LET h1 == Alloc(h, copy(h[student], NextGid(h)))
             students == [kind |-> "set",
                          students |-> SortedSeq(PySetAdd(h1, Range(self.students), Len(h1)))]
         IN  { Done(h1, students, consistency_check(h1, ord)) : ord \in Orders(students) }

\* the loop of from_xml (add = TRUE) and of parse_student_csv (add = FALSE)
\* over the entries, a sequence of sequences of elements: the possible
\* results
RECURSIVE ReadLoop(_, _, _)
ReadLoop(h, entries, addgroups) ==
    LET \* Student(): the class attributes; the set object of the class is 0
        DefaultStudent ==
            [matrnr |-> 0, group |-> {}, gid |-> 0, lastname |-> << >>,
             firstname |-> << >>, degree |-> << >>, regdate |-> [sec |-> 0, us |-> 0],
             email |-> << >>, grade |-> 0, _wikiname |-> << >>]
    IN
    IF entries = << >> THEN { Returned(h, EmptySet) }
    ELSE UNION { IF ~ r.ok THEN { r }
                 ELSE LET st == SetAllFromXml(DefaultStudent, entries[Len(entries)],
                                              addgroups, NextGid(r.heap))
                          h1 == Alloc(r.heap, st.s)
                      IN  IF st.error # NoError THEN { Raised(r.heap, st.error) }
                          ELSE { IF x.ok THEN Returned(x.heap, x.db)
                                 ELSE Raised(x.heap, x.error) :
                                 x \in add(h1, r.db, Len(h1)) } :
                 r \in ReadLoop(h, Front(entries), addgroups) }

\* StudentDatabase.from_xml(xml)
from_xml(h, xml) == ReadLoop(h, xml, TRUE)

\* parse_student_csv: the rows after the header, each cell under the name
\* that MAPPING_CSV_XML gives its column
parse_student_csv(h, csvrows) == ReadLoop(h, csvrows, FALSE)

\* StudentDatabase.to_xml() without the sorting: the <student> elements of
\* the Students seq
RECURSIVE StudentsToXml(_, _)
StudentsToXml(h, seq) ==
    IF seq = << >> THEN << >>
    ELSE StudentsToXml(h, Front(seq)) \o << to_xml(h[seq[Len(seq)]]) >>

Cell(tag, text) == [tag |-> tag, text |-> << text >>]

\* the rows of the registration export for the Students seq: a student is
\* listed once for each of its groups
RECURSIVE CsvRows(_, _)
CsvRows(h, seq) ==
    LET \* the text of the column Gruppe for the group g
        GroupLabel(g) ==
            IF g = 0 THEN << "S", "t", "a", "n", "d", "a", "r", "d", "g", "r", "u", "p", "p", "e" >>
            ELSE << "G", "r", "u", "p", "p", "e", " " >> \o StrOfInt(g)
        \* a row of the registration export for the Student s in the group g
        CsvRow(s, g) ==
            << Cell("group", GroupLabel(g)),
               Cell("lastname", s.lastname),
               Cell("firstname", s.firstname),
               Cell("matriculation-number", StrOfInt(s.matrnr)),
               Cell("degree-programme", s.degree),
               Cell("registration-date", IsoFormat(s.regdate)),
               Cell("email", s.email) >>
    IN
    IF seq = << >> THEN << >>
    ELSE LET s == h[seq[Len(seq)]]
         IN  CsvRows(h, Front(seq))
             \o [k \in 1..Cardinality(s.group) |-> CsvRow(s, SortedSeq(s.group)[k])]

(***************************************************************************)
(* The sorted_by_* operations: list.sort(key=...) of CPython for short     *)
(* lists (the first run is found, reversed when it descends, and the rest  *)
(* is inserted by binary search; only "<" of the keys is used)             *)
(***************************************************************************)

\* str < str
RECURSIVE StrLess(_, _)
StrLess(x, y) ==
    LET \* code point of a character
        Code(c) ==
            IF c \in Range(Uppers) THEN 64 + IndexOf(Uppers, c)
            ELSE IF c \in Range(Lowers) THEN 96 + IndexOf(Lowers, c)
            ELSE IF c \in Range(Digits) THEN 47 + IndexOf(Digits, c)
            ELSE IF c = " " THEN 32
            ELSE IF c = "'" THEN 39
            ELSE IF c = "-" THEN 45
            ELSE IF c = "." THEN 46
            ELSE IF c = ":" THEN 58
            ELSE IF c = SharpS THEN 223
            ELSE 252
    IN
    IF y = << >> THEN FALSE
    ELSE IF x = << >> THEN TRUE
    ELSE IF Head(x) = Head(y) THEN StrLess(Tail(x), Tail(y))
    ELSE Code(Head(x)) < Code(Head(y))

\* key(x) < key(y); "<" of two sets is the proper subset relation
KeyLess(h, key, x, y) ==
    CASE key = "group" -> h[x].group \subseteq h[y].group /\ h[x].group # h[y].group
      [] key = "wikiname" -> StrLess(wikiname(h[x]), wikiname(h[y]))
      [] key = "matrnr" -> h[x].matrnr < h[y].matrnr
      [] key = "regdate" -> DateLess(h[x].regdate, h[y].regdate)

Reverse(seq) == [k \in DOMAIN seq |-> seq[Len(seq) + 1 - k]]

\* StudentDatabase.sorted_by_group / _wikiname / _matriculation_number /
\* _registration_date: the possible results
sorted_by(h, self, key) ==
    LET \* list.sort(key=...): RunEnd is the length of the run that starts the
        \* list, k elements of it already seen; BinarySearch is the position
        \* (0-based) at which pivot is inserted into the sorted list[l+1..r];
        \* BinarySort inserts the elements from position start on one by one
        PySort(seq) ==
            LET RECURSIVE RunEnd(_, _)
                RunEnd(k, desc) ==
                    IF k < Len(seq) /\ (KeyLess(h, key, seq[k + 1], seq[k]) <=> desc)
                    THEN RunEnd(k + 1, desc)
                    ELSE k
                RECURSIVE BinarySearch(_, _, _, _)
                BinarySearch(list, pivot, l, r) ==
                    IF l < r
                    THEN LET p == l + ((r - l) \div 2)
                         IN  IF KeyLess(h, key, pivot, list[p + 1])
                             THEN BinarySearch(list, pivot, l, p)
                             ELSE BinarySearch(list, pivot, p + 1, r)
                    ELSE l
                RECURSIVE BinarySort(_, _)
                BinarySort(list, start) ==
                    IF start > Len(list) THEN list
                    ELSE LET pivot == list[start]
                             l == BinarySearch(list, pivot, 0, start - 1)
                             moved == SubSeq(list, 1, l) \o << pivot >>
                                      \o SubSeq(list, l + 1, start - 1)
                                      \o SubSeq(list, start + 1, Len(list))
                         IN  BinarySort(moved, start + 1)
            IN  IF Len(seq) < 2 THEN seq
                ELSE LET desc == KeyLess(h, key, seq[2], seq[1])
                         run == RunEnd(2, desc)
                         first == IF desc
                                  THEN Reverse(SubSeq(seq, 1, run)) \o SubSeq(seq, run + 1, Len(seq))
                                  ELSE seq
                     IN  BinarySort(first, run + 1)
    IN
    UNION { StudentDatabase(h, [kind |-> "list", students |-> PySort(ord)]) :
            ord \in Orders(self) }

(***************************************************************************)
(* The Students and collections the operations are applied to              *)
(***************************************************************************)
\* names, degree, email, grade, registration date and identity override
Profiles == {
    [firstname |-> << "a", "l" >>, lastname |-> << "b", "o" >>,
     _wikiname |-> << >>, degree |-> << "c", "s" >>,
     regdate |-> [sec |-> 1, us |-> 0], email |-> << "a" >>, grade |-> 0],
    [firstname |-> << "A", "L" >>, lastname |-> << "B", "o" >>,
     _wikiname |-> << >>, degree |-> << >>,
     regdate |-> [sec |-> 2, us |-> 0], email |-> << "b" >>, grade |-> 2],
    [firstname |-> << "c", "y" >>, lastname |-> << "d", "-", "e" >>,
     _wikiname |-> << "Z", "e", "d" >>, degree |-> << "c", "s" >>,
     regdate |-> [sec |-> 3, us |-> 0], email |-> << "a" >>, grade |-> 1] }

GroupChoices == { {0}, {1}, {0, 2}, {1, 2} }

\* a Student with the number m, the groups g and the other attributes of p
Sample(m, g, p) ==
    [matrnr |-> m, group |-> g, gid |-> 0,
     lastname |-> p.lastname, firstname |-> p.firstname,
     degree |-> p.degree, regdate |-> p.regdate, email |-> p.email,
     grade |-> p.grade, _wikiname |-> p._wikiname]

\* a heap of n new Students, each with a set object of its own
SampleHeaps(n) ==
    LET \* the attribute values of the Students of the model
        Samples == { Sample(m, g, p) : m \in 1..MaxMatrnr, g \in GroupChoices, p \in Profiles }
    IN
    { [k \in 1..n |-> [vals[k] EXCEPT !.gid = k]] : vals \in [1..n -> Samples] }

\* a Python set holds no two elements that are equal and hash alike; the
\* Students of a set are created in the order of their numbers
IsPySet(h) ==
    \A j, k \in DOMAIN h :
        j < k => /\ h[j].matrnr <= h[k].matrnr
                 /\ ~ (StudentHash(h[j]) = StudentHash(h[k]) /\ StudentEq(h[j], h[k]))

NoRes == [ok |-> FALSE, db |-> NoDb, error |-> NoError]

\* filter() called without arguments
NoKw == [k \in FilterKeys |-> << >>]

\* filter() called with up to n keyword arguments
RECURSIVE KwUpTo(_)
KwUpTo(n) ==
    LET \* filter() called with one keyword argument
        OneKw ==
            { [NoKw EXCEPT !.group = << v >>] : v \in 0..1 }
            \cup { [NoKw EXCEPT ![k] = << 1 >>] : k \in {"matrnr", "grade"} }
            \cup { [NoKw EXCEPT !.not_matrnr = << 2 >>] }
            \cup { [NoKw EXCEPT !.firstname = << << "a", "L" >> >>] }
            \cup { [NoKw EXCEPT !.lastname = << << "B", "O" >> >>] }
            \cup { [NoKw EXCEPT !.wikiname = << v >>] :
                      v \in { << "A", "l", "B", "o" >>, << "a", "l", "b", "o" >> } }
            \cup { [NoKw EXCEPT !.degree = << << "c", "s" >> >>] }
            \cup { [NoKw EXCEPT !.email = << << "a" >> >>] }
            \cup { [NoKw EXCEPT !.regdate = << [sec |-> 2, us |-> 0] >>] }
            \cup { [NoKw EXCEPT ![k] = << TRUE >>] : k \in {"regdate_smaller", "regdate_greater"} }
    IN
    LET \* the arguments of kw, replaced by those that more passes
        Overlay(kw, more) == [k \in FilterKeys |-> IF more[k] # << >> THEN more[k] ELSE kw[k]]
    IN
    IF n = 0 THEN { NoKw }
    ELSE { Overlay(kw, more) : kw \in KwUpTo(n - 1), more \in OneKw \cup { NoKw } }

KwArgs == KwUpTo(MaxPredicates)

\* no call has been made
NoOp == [name |-> "", self |-> "", other |-> "", mutated |-> FALSE, kw |-> NoKw]

\* the variables of every part of the program that is not in use are at
\* rest: the grid ("grid"), the rosters ("roster") and the functions called
\* on their own ("cell", "gp", "files", "doc", "stud", "ov", "cfg")
Idle(used) ==
    /\ IF "grid" \in used THEN TRUE
       ELSE /\ grading = << >>
            /\ phase = "idle"
            /\ rowid = 0
            /\ consider = << >>
            /\ i = 0
            /\ rows = << >>
            /\ err = ""
            /\ sheet = << >>
    /\ IF "roster" \in used THEN TRUE
       ELSE /\ heap = << >>
            /\ cand = NoDb
            /\ a = NoDb
            /\ b = NoDb
            /\ op = NoOp
            /\ res = NoRes
    /\ IF "cell" \in used THEN TRUE
       ELSE cell = [x |-> 0, y |-> 0, fixed |-> FALSE, state |-> "idle", text |-> << >>]
    /\ IF "gp" \in used THEN TRUE
       ELSE gp = [table |-> << >>, state |-> "idle", scheme |-> << >>]
    /\ IF "files" \in used THEN TRUE
       ELSE /\ gen = [cmd |-> "", path |-> "", scheme |-> << >>, k |-> 0, state |-> "idle"]
            /\ files = << >>
    /\ IF "doc" \in used THEN TRUE
       ELSE doc = [state |-> "none", students |-> << >>]
    /\ IF "stud" \in used THEN TRUE
       ELSE stud = [firstname |-> << >>, lastname |-> << >>, _wikiname |-> << >>,
                    stored |-> << >>, renamed |-> FALSE, read |-> << >>]
    /\ IF "ov" \in used THEN TRUE
       ELSE ov = [state |-> "idle"]
    /\ IF "cfg" \in used THEN TRUE
       ELSE cfg = [state |-> "idle"]

\* a set of up to MaxStudents Students exists; no roster yet.  (Lists of
\* Students are built by the sorted_by_* operations only.)
Init ==
    /\ \E n \in 0..MaxStudents :
         /\ heap \in SampleHeaps(n)
         /\ IsPySet(heap)
         /\ cand = [kind |-> "set", students |-> [k \in 1..n |-> k]]
    /\ a = NoDb
    /\ b = NoDb
    /\ op = NoOp
    /\ res = NoRes
    /\ Idle({"roster"})

\* a = StudentDatabase(cand)
Construct ==
    /\ op.name = ""
    /\ cand.kind # "none"
    /\ \E r \in StudentDatabase(heap, cand) :
         /\ heap' = r.heap
         /\ a' = r.db
         /\ res' = [ok |-> r.ok, db |-> r.db, error |-> r.error]
    /\ op' = [NoOp EXCEPT !.name = "__init__"]
    /\ UNCHANGED <<cand, b>>
    /\ UNCHANGED <<svars, xvars>>

\* StudentDatabase.consistency_check(cand)
ConsistencyCheck ==
    /\ op.name = ""
    /\ cand.kind # "none"
    /\ \E ord \in Orders(cand) :
         res' = [ok |-> consistency_check(heap, ord) = NoError, db |-> NoDb,
                 error |-> consistency_check(heap, ord)]
    /\ op' = [NoOp EXCEPT !.name = "consistency_check"]
    /\ UNCHANGED <<heap, cand, a, b>>
    /\ UNCHANGED <<svars, xvars>>

\* the heaps of new Students with the numbers N, one Student for each
\* number, created in the order of the numbers
HeapsOfNumbers(N) ==
    LET nums == SortedSeq(N)
    IN  { [k \in DOMAIN nums |->
              [Sample(nums[k], pick[k].group, pick[k].profile) EXCEPT !.gid = k]] :
          pick \in [DOMAIN nums -> [group : { g \in GroupChoices : Cardinality(g \ {0}) <= 1 },
                                    profile : Profiles]] }

\* the sets of new Students from which StudentDatabase(...) returns a
\* roster; it returns none when two Students have the same number or a
\* Student has two non-zero groups
Loadable ==
    { h2 \in UNION { HeapsOfNumbers(N) :
                       N \in { M \in SUBSET (1..MaxMatrnr) : Cardinality(M) <= MaxStudents } } :
        /\ IsPySet(h2)
        /\ \A r \in StudentDatabase(h2, [kind |-> "set",
                                         students |-> [k \in DOMAIN h2 |-> k]]) : r.ok }

\* b = StudentDatabase(...) of a second set of new Students
LoadOther ==
    /\ op.name = "__init__"
    /\ res.ok
    /\ \E h2 \in Loadable :
         LET base == Len(heap)
             h1 == heap \o [k \in DOMAIN h2 |->
                               [h2[k] EXCEPT !.gid = NextGid(heap) + k - 1]]
             coll == [kind |-> "set", students |-> [k \in DOMAIN h2 |-> base + k]]
         IN  \E r \in StudentDatabase(h1, coll) :
                /\ r.ok
                /\ heap' = r.heap
                /\ b' = r.db
                /\ res' = [ok |-> r.ok, db |-> r.db, error |-> r.error]
    /\ op' = [NoOp EXCEPT !.name = "load"]
    /\ UNCHANGED <<cand, a>>
    /\ UNCHANGED <<svars, xvars>>

\* the roster called a or b
Roster(name) == IF name = "a" THEN a ELSE b

\* the receiver and the argument of a call of union or difference: a with
\* itself, and the two loaded rosters either way round
Operands ==
    IF op.name = "__init__" /\ res.ok THEN { << "a", "a" >> }
    ELSE IF op.name = "load" THEN { << "a", "b" >>, << "b", "a" >> }
    ELSE {}

\* res = x.union(y)
Union ==
    /\ \E xy \in Operands :
         /\ \E r \in union(heap, Roster(xy[1]), Roster(xy[2])) :
              /\ heap' = r.heap
              /\ res' = [ok |-> r.ok, db |-> r.db, error |-> r.error]
         /\ op' = [NoOp EXCEPT !.name = "union", !.self = xy[1], !.other = xy[2]]
    /\ UNCHANGED <<cand, a, b>>
    /\ UNCHANGED <<svars, xvars>>

\* res = x.difference(y)
Difference ==
    /\ \E xy \in Operands :
         /\ \E r \in difference(heap, Roster(xy[1]), Roster(xy[2])) :
              /\ heap' = r.heap
              /\ res' = [ok |-> r.ok, db |-> r.db, error |-> r.error]
         /\ op' = [NoOp EXCEPT !.name = "difference", !.self = xy[1], !.other = xy[2]]
    /\ UNCHANGED <<cand, a, b>>
    /\ UNCHANGED <<svars, xvars>>

\* res = a.filter(**kw)
Filter ==
    /\ op.name = "__init__"
    /\ res.ok
    /\ \E kw \in KwArgs :
         /\ \E r \in filter(heap, a, kw) :
              /\ heap' = r.heap
              /\ res' = [ok |-> r.ok, db |-> r.db, error |-> r.error]
         /\ op' = [NoOp EXCEPT !.name = "filter", !.self = "a", !.kw = kw]
    /\ UNCHANGED <<cand, a, b>>
    /\ UNCHANGED <<svars, xvars>>

\* res = a.sorted_by_<key>()
SortedBy ==
    /\ op.name = "__init__"
    /\ res.ok
    /\ \E key \in { "group", "wikiname", "matrnr", "regdate" } :
         /\ \E r \in sorted_by(heap, a, key) :
              /\ heap' = r.heap
              /\ res' = [ok |-> r.ok, db |-> r.db, error |-> r.error]
         /\ op' = [NoOp EXCEPT !.name = "sorted_by_" \o key, !.self = "a"]
    /\ UNCHANGED <<cand, a, b>>
    /\ UNCHANGED <<svars, xvars>>

\* a students file that holds the Students of cand is read with from_xml
FromXml ==
    /\ op.name = ""
    /\ cand.kind # "none"
    /\ \E ord \in Orders(cand) :
         \E r \in from_xml(heap, StudentsToXml(heap, ord)) :
            /\ heap' = r.heap
            /\ res' = [ok |-> r.ok, db |-> r.db, error |-> r.error]
            /\ a' = r.db
    /\ op' = [NoOp EXCEPT !.name = "from_xml"]
    /\ UNCHANGED << cand, b, svars, xvars >>

\* a registration export that lists the Students of cand is read with
\* parse_student_csv
ParseStudentCsv ==
    /\ op.name = ""
    /\ cand.kind # "none"
    /\ \E ord \in Orders(cand) :
         \E r \in parse_student_csv(heap, CsvRows(heap, ord)) :
            /\ heap' = r.heap
            /\ res' = [ok |-> r.ok, db |-> r.db, error |-> r.error]
            /\ a' = r.db
    /\ op' = [NoOp EXCEPT !.name = "parse_student_csv"]
    /\ UNCHANGED << cand, b, svars, xvars >>

\* the group added by a later change to a record
LaterGroup == 7

\* the records of the returned roster are changed afterwards, in place:
\* s.group.add(LaterGroup) changes the set object that s.group is bound to,
\* and with it every Student bound to the same set object
MutateResult ==
    /\ op.name \in {"union", "difference", "filter"}
    /\ res.ok
    /\ res.db.students # << >>
    /\ ~ op.mutated
    /\ heap' = [p \in DOMAIN heap |->
                   IF \E o \in Range(res.db.students) : heap[p].gid = heap[o].gid
                   THEN [heap[p] EXCEPT !.group = @ \cup {LaterGroup}]
                   ELSE heap[p]]
    /\ op' = [op EXCEPT !.mutated = TRUE]
    /\ UNCHANGED <<cand, a, b, res>>
    /\ UNCHANGED <<svars, xvars>>

Next ==
    \/ Construct
    \/ FromXml
    \/ ParseStudentCsv
    \/ ConsistencyCheck
    \/ LoadOther
    \/ Union
    \/ Difference
    \/ Filter
    \/ SortedBy
    \/ MutateResult

Spec == Init /\ [][Next]_vars

(***************************************************************************)
(* create_group_spreadsheets: rows written before the total row            *)
(***************************************************************************)
\* row numbers appended to consider[0] by the loop over the exercises,
\* when the first exercise row is written at row number rid
RECURSIVE CriterionRows(_, _)
CriterionRows(g, rid) ==
    IF g = <<>> THEN <<>>
    ELSE [m \in 1..Head(g) |-> rid + m]
         \o CriterionRows(Tail(g), rid + Head(g) + 2)

\* value of rowid after the loop over the exercises g, the number of rows
\* written before the row "Gesamt": two header rows, and per exercise its
\* title row, its criterion rows and one empty row
RowidAfterExercises(g) == 2 + SumSeq(g) + 2 * Len(g)

\* the two header rows and the exercise/criterion rows are written
WriteRows ==
    /\ phase = "rows"
    /\ consider' = << CriterionRows(grading, 2) >>
    /\ rows' = CriterionRows(grading, 2)
    /\ rowid' = RowidAfterExercises(grading)
    /\ phase' = "assert"
    /\ UNCHANGED <<grading, i, err, sheet>>
    /\ UNCHANGED <<rvars, xvars>>

\* assert len(consider[0]) < 120
AssertRowLimit ==
    /\ phase = "assert"
    /\ IF Len(consider[1]) < RowLimit
       THEN /\ phase' = "split"
            /\ i' = 0
            /\ err' = err
       ELSE /\ phase' = "failed"
            /\ err' = "AssertionError"
            /\ i' = i
    /\ UNCHANGED <<grading, rowid, consider, rows, sheet>>
    /\ UNCHANGED <<rvars, xvars>>

(***************************************************************************)
(* create_group_spreadsheets: the splitter loop                            *)
(***************************************************************************)

\* while i + 1 >= len(consider): consider.append([])
Extended(cons, ix) ==
    IF ix + 1 >= Len(cons) THEN cons \o [k \in 1..(ix + 2 - Len(cons)) |-> <<>>]
    ELSE cons

\* a splitter that forgets to remove the evicted reference from its bucket
EvictWithoutPop(cons, ix) ==
    LET value == cons[ix + 1][Len(cons[ix + 1])]
        ext == Extended(cons, ix)
    IN  [ext EXCEPT ![ix + 2] = Append(@, value)]

\* value = consider[i].pop(); ...; consider[i + 1].append(value)
Evict(cons, ix) ==
    LET value == cons[ix + 1][Len(cons[ix + 1])]
        popped == [cons EXCEPT ![ix + 1] = Front(@)]
        ext == Extended(popped, ix)
    IN  [ext EXCEPT ![ix + 2] = Append(@, value)]

\* one iteration of "while i < len(consider)", or the exit of the loop
SplitStep ==
    LET \* len(consider[i]) + len(consider) - special > max_values_per_sum
        Overfull(cons, ix) ==
            LET \* special = 2 if i == 0 else 0
                special == IF ix = 0 THEN 2 ELSE 0
            IN  Len(cons[ix + 1]) + Len(cons) - special > max_values_per_sum
    IN
    /\ phase = "split"
    /\ IF i < Len(consider)
       THEN IF Overfull(consider, i)
            THEN IF consider[i + 1] = <<>>
                 THEN \* list.pop() on an empty list raises IndexError
                      /\ phase' = "failed"
                      /\ err' = "IndexError"
                      /\ UNCHANGED <<consider, i>>
                 ELSE /\ consider' = Evict(consider, i)
                      /\ i' = 0
                      /\ UNCHANGED <<phase, err>>
            ELSE /\ i' = i + 1
                 /\ UNCHANGED <<consider, phase, err>>
       ELSE /\ phase' = "settled"
            /\ UNCHANGED <<consider, i, err>>
    /\ UNCHANGED <<grading, rowid, rows, sheet>>
    /\ UNCHANGED <<rvars, xvars>>

(***************************************************************************)
(* create_group_spreadsheets: the total row, the two administrative rows   *)
(* and the split rows                                                      *)
(***************************************************************************)
\* spreadsheet_cell_id(x, y, fixed=fixed) for 0 <= x < 676; for a column
\* from 26 on the template is filled with the two letters of the column
spreadsheet_cell_id(x, y, fixed) ==
    LET mark == IF fixed THEN << "$" >> ELSE << >>
    IN  IF x < 26
        THEN mark \o << Uppers[x + 1] >> \o mark \o StrOfInt(y + 1)
        ELSE mark \o << Uppers[(x \div 26) + 1] >> \o mark \o << Uppers[(x % 26) + 1] >>

\* if_stmt.format(spreadsheet_cell_id(s_id + 2, row_id),
\*                spreadsheet_cell_id(1, row_id, fixed=True))
IfTerm(s_id, row_id) ==
    [kind |-> "IF", cell |-> spreadsheet_cell_id(s_id + 2, row_id, FALSE),
     points |-> spreadsheet_cell_id(1, row_id, TRUE)]

\* an argument of SUM that is a cell
CellTerm(s_id, row_id) ==
    [kind |-> "cell", cell |-> spreadsheet_cell_id(s_id + 2, row_id, FALSE),
     points |-> << >>]

\* a written row: its label, the number of rows written before it, and
\* the SUM arguments of the cell of every student (none in an empty cell)
Written(label, index, cells) == [label |-> label, index |-> index, cells |-> cells]

\* the rows "Gesamt", "Deadline verpasst" and "Bonuspunkte" are written for
\* a group of n students
WriteTotal ==
    LET \* accu of the row "Gesamt" for the student s_id: the terms of the first
        \* bucket, the two cells below, and "for i in range(len(consider))"
        TotalAccu(cons, rid, s_id) ==
            [k \in DOMAIN cons[1] |-> IfTerm(s_id, cons[1][k])]
            \o << CellTerm(s_id, rid + 1), CellTerm(s_id, rid + 2) >>
            \o [k \in 1..Len(cons) |-> CellTerm(s_id, rid + 3 + (k - 1))]
    IN
    /\ phase = "settled"
    /\ \E n \in 0..MaxStudents :
         sheet' = << Written("Gesamt", rowid,
                             [s \in 1..n |-> TotalAccu(consider, rowid, s - 1)]),
                     Written("Deadline verpasst", rowid + 1, [s \in 1..n |-> << >>]),
                     Written("Bonuspunkte", rowid + 2, [s \in 1..n |-> << >>]) >>
    /\ consider' = Tail(consider)
    /\ rowid' = rowid + 3
    /\ phase' = "splitrows"
    /\ UNCHANGED <<grading, i, rows, err>>
    /\ UNCHANGED <<rvars, xvars>>

\* one iteration of "while len(consider) != 0", or the exit of the loop
WriteSplitRow ==
    LET \* accu of a row "[ split ]" for the student s_id
        SplitAccu(bucket, s_id) == [k \in DOMAIN bucket |-> IfTerm(s_id, bucket[k])]
    IN
    /\ phase = "splitrows"
    /\ IF consider # << >>
       THEN /\ sheet' = Append(sheet,
                           Written("[ split ]", rowid,
                                   [s \in DOMAIN sheet[1].cells |->
                                       SplitAccu(consider[1], s - 1)]))
            /\ rowid' = rowid + 1
            /\ consider' = Tail(consider)
            /\ phase' = phase
       ELSE /\ phase' = "written"
            /\ UNCHANGED <<sheet, rowid, consider>>
    /\ UNCHANGED <<grading, i, rows, err>>
    /\ UNCHANGED <<rvars, xvars>>

InitSplit ==
    LET \* the grading scheme of the assignment: every exercise of it lists the
        \* same number of criteria
        Gradings ==
            { [e \in 1..n |-> k] : n \in 1..MaxExercises, k \in 0..MaxCriteria }
    IN
    /\ grading \in Gradings
    /\ phase = "rows"
    /\ rowid = 0
    /\ consider = << <<>> >>
    /\ i = 0
    /\ rows = <<>>
    /\ err = ""
    /\ sheet = << >>
    /\ Idle({"grid"})

NextSplit ==
    \/ WriteRows
    \/ AssertRowLimit
    \/ SplitStep
    \/ WriteTotal
    \/ WriteSplitRow

SpecSplit == InitSplit /\ [][NextSplit]_vars

(***************************************************************************)
(* The commands that write files.  "spreadsheets create" for one group     *)
(* calls create_group_spreadsheets and then create_title_group_spreadsheet.*)
(* The assignments are named 1..n; gen.scheme[k] is << >> when the grading *)
(* scheme has no entry of assignment k and << g >> when it has the         *)
(* exercises g.  files[k] is the file of assignment k and files[n + 1] the *)
(* overview: "absent", "old" (what it held before the command) or "new"    *)
(* (created or truncated by open), and the answer typed at the overwrite   *)
(* question (<< >> when it was not asked, << text >> otherwise).           *)
(***************************************************************************)
\* what the user types at "Answer (y/n): "
Answers == { << >>, << "y" >>, << "n" >>, << "J", "a" >> }

\* confirm(question, default) when the user types answer
confirm(answer, default) ==
    IF answer = << >> THEN default ELSE LowerChar(answer[1]) \in {"y", "j"}

\* "if os.path.exists(filepath): if not confirm(...): return" followed by
\* open(filepath, "w"): the file after it, for the answer typed
Opened(file, answer, default) ==
    IF file.now # "absent"
    THEN IF confirm(answer, default)
         THEN [file EXCEPT !.now = "new", !.answer = << answer >>]
         ELSE [file EXCEPT !.answer = << answer >>]
    ELSE [file EXCEPT !.now = "new"]

\* create_group_spreadsheets: os.path.exists(filepath), the overwrite
\* question and open(filepath, "w")
OpenSheet ==
    LET \* the function has returned at the overwrite question
        Declined(file, answer, default) == file.now # "absent" /\ ~ confirm(answer, default)
    IN
    /\ gen.state = "running"
    /\ phase = "exists"
    /\ \E answer \in Answers :
         /\ files' = [files EXCEPT ![gen.k] = Opened(@, answer, FALSE)]
         /\ IF Declined(files[gen.k], answer, FALSE)
            THEN \* print("Abort."); return
                 /\ gen' = [gen EXCEPT !.state = "aborted"]
                 /\ UNCHANGED <<phase, rowid, consider>>
            ELSE /\ phase' = "lookup"
                 /\ rowid' = 0
                 /\ consider' = << << >> >>
                 /\ gen' = gen
    /\ UNCHANGED <<grading, i, rows, err, sheet>>
    /\ UNCHANGED <<rvars, cell, gp, doc, stud, ov, cfg>>

\* grading[assdata['name']] at the head of the loop over the exercises,
\* after the two header rows
LookupGrading ==
    /\ phase = "lookup"
    /\ IF gen.scheme[gen.k] = << >>
       THEN /\ phase' = "failed"
            /\ err' = "KeyError"
            /\ UNCHANGED grading
       ELSE /\ grading' = gen.scheme[gen.k][1]
            /\ phase' = "rows"
            /\ UNCHANGED err
    /\ rowid' = 2
    /\ UNCHANGED <<consider, i, rows, sheet>>
    /\ UNCHANGED <<rvars, xvars>>

\* the file is closed; the loop goes on with the next assignment or the
\* function returns
NextAssignment ==
    /\ gen.state = "running"
    /\ phase = "written"
    /\ IF gen.k < Len(gen.scheme)
       THEN /\ gen' = [gen EXCEPT !.k = @ + 1]
            /\ phase' = "exists"
       ELSE /\ gen' = [gen EXCEPT !.state = "returned"]
            /\ phase' = phase
    /\ UNCHANGED <<grading, rowid, consider, i, rows, err, sheet>>
    /\ UNCHANGED <<rvars, cell, gp, files, doc, stud, ov, cfg>>

\* create_title_group_spreadsheet, called when create_group_spreadsheets
\* has returned
CreateTitleGroupSpreadsheet ==
    /\ gen.state \in {"returned", "aborted"}
    /\ \E answer \in Answers :
         files' = [files EXCEPT ![Len(files)] = Opened(@, answer, FALSE)]
    /\ gen' = [gen EXCEPT !.state = "finished"]
    /\ UNCHANGED <<svars, rvars, cell, gp, doc, stud, ov, cfg>>

\* write_xml(xml_element, xml_filepath)
WriteXml ==
    /\ gen.cmd = "write_xml"
    /\ gen.state = "running"
    /\ IF gen.path = "-"
       THEN files' = files
       ELSE \E answer \in Answers :
                files' = [files EXCEPT ![1] = Opened(@, answer, TRUE)]
    /\ gen' = [gen EXCEPT !.state = "finished"]
    /\ UNCHANGED <<svars, rvars, cell, gp, doc, stud, ov, cfg>>

\* the files of a command before it runs
FilesBefore(n) ==
    { [k \in 1..n |-> [before |-> before[k], now |-> before[k], answer |-> << >>]] :
      before \in [1..n -> {"absent", "old"}] }

InitRun ==
    LET \* the grading schemes of the calls: exercises that fit, that overflow the
        \* splitter, and that break the row limit
        RunGradings == { << 1 >>, << 39 >>, << 40, 40, 40 >> }
    IN
    /\ \/ \E n \in 1..MaxAssignments :
            /\ gen \in [cmd : {"create"}, path : {"file"},
                        scheme : [1..n -> {<< >>} \cup { << g >> : g \in RunGradings }],
                        k : {1}, state : {"running"}]
            /\ files \in FilesBefore(n + 1)
            /\ phase = "exists"
       \/ /\ gen \in [cmd : {"write_xml"}, path : {"-", "file"}, scheme : {<< >>},
                      k : {0}, state : {"running"}]
          /\ files \in FilesBefore(1)
          /\ phase = "idle"
    /\ grading = << >>
    /\ rowid = 0
    /\ consider = << >>
    /\ i = 0
    /\ rows = << >>
    /\ err = ""
    /\ sheet = << >>
    /\ Idle({"grid", "files"})

NextRun ==
    \/ OpenSheet
    \/ LookupGrading
    \/ WriteRows
    \/ AssertRowLimit
    \/ SplitStep
    \/ WriteTotal
    \/ WriteSplitRow
    \/ NextAssignment
    \/ CreateTitleGroupSpreadsheet
    \/ WriteXml

SpecRun == InitRun /\ [][NextRun]_vars

(***************************************************************************)
(* A roster is written with StudentDatabase.to_xml and read back with      *)
(* StudentDatabase.from_xml                                                *)
(***************************************************************************)
\* a roster serialised in the order in which it is iterated
to_xml_unsorted(h, self) ==
    { [ok |-> TRUE, heap |-> h, error |-> NoError, students |-> StudentsToXml(h, ord)] :
      ord \in Orders(self) }

\* StudentDatabase.to_xml(): the possible results, the children of the
\* element <students> in students
StudentDatabase_to_xml(h, self) ==
    { [ok |-> r.ok, heap |-> r.heap, error |-> r.error,
       students |-> IF r.ok THEN StudentsToXml(r.heap, r.db.students) ELSE << >>] :
      r \in sorted_by(h, self, "matrnr") }

\* the microseconds of datetime.datetime.now(), when they are not 0
Microseconds == 5

InitXml ==
    LET \* the sets and lists of Students a roster is made of: one Student for each
        \* number, registered at a full second or not, a list in any order
        XmlHeaps ==
            { [k \in DOMAIN h |-> [h[k] EXCEPT !.regdate.us = us]] :
              h \in UNION { HeapsOfNumbers(N) :
                              N \in { M \in SUBSET (1..MaxMatrnr) : Cardinality(M) <= MaxStudents } },
              us \in {0, Microseconds} }
    IN
    /\ heap \in XmlHeaps
    /\ \E kind \in {"set", "list"} :
         \E ord \in Perms(DOMAIN heap) :
            /\ kind = "set" => ord = [k \in DOMAIN heap |-> k]
            /\ cand = [kind |-> kind, students |-> ord]
    /\ a = NoDb
    /\ b = NoDb
    /\ op = NoOp
    /\ res = NoRes
    /\ Idle({"roster"})

\* doc = a.to_xml()
ToXml ==
    /\ op.name = "__init__"
    /\ res.ok
    /\ doc.state = "none"
    /\ \E r \in StudentDatabase_to_xml(heap, a) :
         /\ heap' = r.heap
         /\ doc' = [state |-> IF r.ok THEN "written" ELSE "failed", students |-> r.students]
    /\ UNCHANGED <<cand, a, b, op, res>>
    /\ UNCHANGED <<svars, cell, gp, gen, files, stud, ov, cfg>>

\* res = StudentDatabase().from_xml(doc)
ReadXml ==
    /\ op.name = "__init__"
    /\ doc.state = "written"
    /\ \E r \in from_xml(heap, doc.students) :
         /\ heap' = r.heap
         /\ res' = [ok |-> r.ok, db |-> r.db, error |-> r.error]
    /\ op' = [NoOp EXCEPT !.name = "from_xml", !.other = "a"]
    /\ UNCHANGED <<cand, a, b>>
    /\ UNCHANGED <<svars, xvars>>

NextXml ==
    \/ Construct
    \/ ToXml
    \/ ReadXml

SpecXml == InitXml /\ [][NextXml]_vars

(***************************************************************************)
(* One Student: its names and its wikiname are set (setattr in update,     *)
(* set_from_xml) and its wikiname is read.  stud.stored is the override    *)
(* that was stored last, stud.renamed tells that a name was set after it,  *)
(* stud.read is the wikiname that was read since the last change.          *)
(***************************************************************************)

InitName ==
    LET NameChars == { "a", "B", " ", "-", "'", UUml, SharpS, WideHyphen }
        FirstNames == UNION { [1..n -> NameChars] : n \in 0..MaxNameLen }
        LastNames == { << "o" >>, << "d", "-", "e" >>, << UUml, "X" >> }
    IN
    /\ stud \in [firstname : FirstNames, lastname : LastNames, _wikiname : {<< >>},
                 stored : {<< >>}, renamed : {FALSE}, read : {<< >>}]
    /\ Idle({"stud"})

\* student.wikiname = value
SetWikiname ==
    LET \* the wikinames stored
        Overrides == { << "Z", "e", "d" >>, << "a", "-", "b" >> }
    IN
    /\ \E value \in Overrides :
         stud' = [stud EXCEPT !._wikiname = value, !.stored = << value >>,
                              !.renamed = FALSE, !.read = << >>]
    /\ UNCHANGED <<svars, rvars, cell, gp, gen, files, doc, ov, cfg>>

\* student.firstname = value or student.lastname = value
SetName ==
    LET \* the names typed in later
        TypedNames == { << "B", "a" >>, << "a", "'", "a" >> }
    IN
    /\ \E value \in TypedNames :
         \/ stud' = [stud EXCEPT !.firstname = value, !.renamed = TRUE, !.read = << >>]
         \/ stud' = [stud EXCEPT !.lastname = value, !.renamed = TRUE, !.read = << >>]
    /\ UNCHANGED <<svars, rvars, cell, gp, gen, files, doc, ov, cfg>>

\* student.wikiname is read
ReadWikiname ==
    /\ stud' = [stud EXCEPT !.read = << wikiname(stud) >>]
    /\ UNCHANGED <<svars, rvars, cell, gp, gen, files, doc, ov, cfg>>

NextName ==
    \/ SetWikiname
    \/ SetName
    \/ ReadWikiname

SpecName == InitName /\ [][NextName]_vars

(***************************************************************************)
(* parse_grading_points.  A table is a sequence of rows of three cells;    *)
(* an OrderedDict is the sequence of its items [key, val].                 *)
(***************************************************************************)

\* str.strip() of blanks, by str.lstrip() from either end
Strip(str) ==
    LET RECURSIVE LStrip(_)
        LStrip(text) ==
            IF text # << >> /\ Head(text) = " " THEN LStrip(Tail(text)) ELSE text
    IN  Reverse(LStrip(Reverse(LStrip(str))))

\* bold(v): the stripped text begins and ends with '*'
bold(v) ==
    LET t == Strip(v) IN t # << >> /\ t[1] = "*" /\ t[Len(t)] = "*"

DictGet(d, key) == d[CHOOSE k \in DOMAIN d : d[k].key = key].val

\* an assignment that puts a new key before the keys that are there
DictSetInFront(d, key, val) ==
    IF \E k \in DOMAIN d : d[k].key = key
    THEN [k \in DOMAIN d |-> IF d[k].key = key THEN [key |-> key, val |-> val] ELSE d[k]]
    ELSE << [key |-> key, val |-> val] >> \o d

\* d[key] = val: a present key keeps its place
DictSet(d, key, val) ==
    LET DictHas == \E k \in DOMAIN d : d[k].key = key
    IN
    IF DictHas
    THEN [k \in DOMAIN d |-> IF d[k].key = key THEN [key |-> key, val |-> val] ELSE d[k]]
    ELSE Append(d, [key |-> key, val |-> val])

\* "assert x" passes for a name: x is neither None nor ''
Truthy(name) == name # << >> /\ name[1] # << >>

\* the loop "for row in table"
RECURSIVE ParseRows(_)
ParseRows(table) ==
    LET \* the body of "for row in table"
        ParseRow(st, row) ==
            IF bold(row[1]) /\ row[2] = << >>
            THEN IF ~ IsInt(Strip(row[3])) THEN [st EXCEPT !.state = "ValueError"]
                 ELSE LET name == SubSeq(Strip(row[1]), 2, Len(Strip(row[1])) - 1)
                      IN  [st EXCEPT !.assignment = << name >>,
                                     !.exercise = << >>,
                                     !.grading = DictSet(@, name, << >>),
                                     !.check = DictSet(@, name,
                                                       [expect |-> IntOfStr(Strip(row[3])),
                                                        exercises |-> << >>])]
            ELSE IF Strip(row[1]) = << >>
            THEN IF ~ Truthy(st.assignment) \/ ~ Truthy(st.exercise)
                 THEN [st EXCEPT !.state = "AssertionError"]
                 ELSE IF ~ IsInt(Strip(row[3])) THEN [st EXCEPT !.state = "ValueError"]
                 ELSE LET asg == st.assignment[1]
                          exc == st.exercise[1]
                          old == DictGet(DictGet(st.grading, asg), exc)
                      IN  [st EXCEPT !.grading =
                              DictSet(@, asg,
                                      DictSet(DictGet(st.grading, asg), exc,
                                              DictSet(old, Strip(row[2]), IntOfStr(Strip(row[3])))))]
            ELSE IF ~ Truthy(st.assignment) THEN [st EXCEPT !.state = "AssertionError"]
                 ELSE IF ~ IsInt(Strip(row[3])) THEN [st EXCEPT !.state = "ValueError"]
                 ELSE LET asg == st.assignment[1]
                          exc == Strip(row[1])
                          chk == DictGet(st.check, asg)
                      IN  [st EXCEPT !.exercise = << exc >>,
                                     !.grading = DictSet(@, asg,
                                                         DictSet(DictGet(st.grading, asg), exc, << >>)),
                                     !.check = DictSet(@, asg,
                                                       [chk EXCEPT !.exercises =
                                                           DictSet(@, exc, IntOfStr(Strip(row[3])))])]
    IN
    LET \* the state of the loop over the rows: grading, check (for an assignment
        \* its 'expect' and the 'expect' of its exercises), assignment and exercise
        \* (<< >> for None, << name >> otherwise) and the exception raised
        ParseStart ==
            [grading |-> << >>, check |-> << >>, assignment |-> << >>, exercise |-> << >>,
             state |-> "running"]
    IN
    IF table = << >> THEN ParseStart
    ELSE LET st == ParseRows(Front(table))
         IN  IF st.state # "running" THEN st ELSE ParseRow(st, table[Len(table)])

Abs(n) == IF n < 0 THEN 0 - n ELSE n

\* check[assignment][exercise]['points']: the sum of abs(pts) of the
\* criteria of an exercise
ExercisePoints(criteria) == SumSeq([k \in DOMAIN criteria |-> Abs(criteria[k].val)])

\* parse_grading_points for the table that read_foswiki_table returns
parse_grading_points(table) ==
    LET \* the consistency check of parse_grading_points passes
        SumsConsistent(scheme, check) ==
            LET \* check[assignment]['points'] after the loop over the exercises
                AssignmentPoints(exercises) ==
                    SumSeq([k \in DOMAIN exercises |-> ExercisePoints(exercises[k].val)])
            IN
            \A j \in DOMAIN scheme :
                LET chk == DictGet(check, scheme[j].key)
                    exercises == scheme[j].val
                IN  /\ \A k \in DOMAIN exercises :
                          ExercisePoints(exercises[k].val) = DictGet(chk.exercises, exercises[k].key)
                    /\ AssignmentPoints(exercises) = chk.expect
    IN
    IF table = << >> THEN [state |-> "ValueError", scheme |-> << >>]
    ELSE LET st == ParseRows(table)
         IN  IF st.state # "running" THEN [state |-> st.state, scheme |-> << >>]
             ELSE IF ~ SumsConsistent(st.grading, st.check)
             THEN [state |-> "ValueError", scheme |-> << >>]
             ELSE [state |-> "returned", scheme |-> st.grading]

InitParse ==
    LET \* the rows of the tables of the model: assignment rows, exercise rows and
        \* criterion rows
        TableRows ==
            { << << "*", "A", "*" >>, << >>, StrOfInt(n) >> : n \in 1..2 }
            \cup { << << "*", "B", "*" >>, << >>, StrOfInt(1) >> }
            \cup { << << " ", e, " " >>, << " " >>, << " " >> \o StrOfInt(n) \o << " " >> >> :
                      e \in {"E", "F"}, n \in 1..2 }
            \cup { << << " " >>, << " ", c, " " >>, << " " >> \o StrOfInt(n) \o << " " >> >> :
                      c \in {"p", "q"}, n \in {1, 0 - 1} }
    IN
    /\ \E n \in 0..MaxTableRows :
         gp \in [table : [1..n -> TableRows], state : {"called"}, scheme : {<< >>}]
    /\ Idle({"gp"})

\* parse_grading_points returns or raises
ParseGradingPoints ==
    /\ gp.state = "called"
    /\ gp' = LET r == parse_grading_points(gp.table)
             IN  [gp EXCEPT !.state = r.state, !.scheme = r.scheme]
    /\ UNCHANGED <<svars, rvars, cell, gen, files, doc, stud, ov, cfg>>

NextParse == ParseGradingPoints

SpecParse == InitParse /\ [][NextParse]_vars

(***************************************************************************)
(* spreadsheet_cell_id called on its own                                   *)
(***************************************************************************)
InitCell ==
    /\ cell \in [x : 0..MaxColumn, y : 0..MaxRow, fixed : BOOLEAN,
                 state : {"called"}, text : {<< >>}]
    /\ Idle({"cell"})

\* spreadsheet_cell_id(cell.x, cell.y, fixed=cell.fixed) returns or raises
CellId ==
    LET \* spreadsheet_cell_id raises ValueError for the column x
        CellIdRaises(x) == ~ (x < 676)
    IN
    /\ cell.state = "called"
    /\ cell' = IF CellIdRaises(cell.x)
               THEN [cell EXCEPT !.state = "ValueError"]
               ELSE [cell EXCEPT !.state = "returned",
                                 !.text = spreadsheet_cell_id(cell.x, cell.y, cell.fixed)]
    /\ UNCHANGED <<svars, rvars, gp, gen, files, doc, stud, ov, cfg>>

NextCell == CellId

SpecCell == InitCell /\ [][NextCell]_vars

(***************************************************************************)
(* create_title_group_spreadsheet: the overview of one group.  The group   *)
(* has ov.n students (db after filter and sorted_by_wikiname), the         *)
(* assignments of the grading scheme are named 1..Len(ov.scheme) and       *)
(* ov.scheme[k] lists the number of criteria of every exercise of          *)
(* assignment k; ov.grades is config.grades, the items [name, min, max] in *)
(* the order of insertion.  A row is the sequence of the texts of its      *)
(* cells.                                                                  *)
(***************************************************************************)
\* str.format(*args) with automatic field numbering: "{{" and "}}" stand
\* for a brace, "{}" is replaced by the next argument
Format(str, args) ==
    LET \* the number of characters c that stand directly before position k
        RunBefore(k, c) ==
            LET others == { j \in 1..(k - 1) : str[j] # c }
            IN  k - 1 - (IF others = { } THEN 0
                         ELSE CHOOSE j \in others : \A m \in others : m <= j)
        After(k) == IF k < Len(str) THEN str[k + 1] ELSE ""
        \* the brace at k begins a replacement field
        Opens(k) == str[k] = "{" /\ RunBefore(k, "{") % 2 = 0 /\ After(k) # "{"
        \* the position of the brace "}" at k among the braces "}" of its run
        \* that do not end a replacement field
        Closing(k) ==
            LET first == k - RunBefore(k, "}")
            IN  IF first > 1 /\ Opens(first - 1)
                THEN RunBefore(k, "}") - 1 ELSE RunBefore(k, "}")
        Field(k) == Cardinality({ j \in 1..k : Opens(j) })
        Problem(k) ==
            IF Opens(k) THEN (IF After(k) # "}" THEN "ValueError"
                              ELSE IF Field(k) > Len(args) THEN "IndexError" ELSE "")
            ELSE IF str[k] = "}" /\ Closing(k) >= 0 /\ Closing(k) % 2 = 0 /\ After(k) # "}"
            THEN "ValueError" ELSE ""
        Piece(k) ==
            IF Opens(k) THEN args[Field(k)]
            ELSE IF str[k] = "{" THEN (IF RunBefore(k, "{") % 2 = 0 THEN << "{" >> ELSE << >>)
            ELSE IF str[k] = "}"
            THEN (IF Closing(k) >= 0 /\ Closing(k) % 2 = 0 THEN << "}" >> ELSE << >>)
            ELSE << str[k] >>
        problems == { k \in DOMAIN str : Problem(k) # "" }
    IN  IF problems # { }
        THEN [err |-> Problem(Min(problems)), text |-> << >>]
        ELSE [err |-> "", text |-> Flatten([k \in DOMAIN str |-> Piece(k)])]

\* grade_recursive = 'IF({}<{},"{}",{{}})'
grade_recursive ==
    << "I", "F", "(", "{", "}", "<", "{", "}", ",", "\"", "{", "}", "\"", ",",
       "{", "{", "}", "}", ")" >>

\* grades = [(name, g['max']) ...]; grades.sort(key=lambda x: x[1]): the
\* sort is stable
RECURSIVE SortedByMax(_)
SortedByMax(items) ==
    IF items = << >> THEN << >>
    ELSE LET rest == SortedByMax(Front(items))
             last == items[Len(items)]
             keep == { k \in DOMAIN rest : rest[k].max <= last.max }
             at == IF keep = { } THEN 0 ELSE CHOOSE k \in keep : \A m \in keep : m <= k
         IN  SubSeq(rest, 1, at) \o << last >> \o SubSeq(rest, at + 1, Len(rest))

\* a row count that leaves out the empty row after every exercise
row_total_points_without_gaps(v) == 2 + Len(v) + SumSeq(v)

\* row_total_points[ass] of the assignment with the exercises v
row_total_points(v) == 2 + 2 * Len(v) + SumSeq(v)

\* the loop "for name, maximum in grades" for the student s_id, begun with
\* the text grade
RECURSIVE GradeLoop(_, _, _, _)
GradeLoop(grade, grades, k, s_id) ==
    IF k > Len(grades) \/ grade.err # "" THEN grade
    ELSE IF grades[k].name # grades[Len(grades)].name
    THEN LET nested == Format(grade.text, << grade_recursive >>)
         IN  IF nested.err # "" THEN nested
             ELSE GradeLoop(Format(nested.text,
                                   << spreadsheet_cell_id(17, 2 + s_id, FALSE),
                                      StrOfInt(grades[k].max + 1),
                                      StrOfInt(grades[k].name) >>),
                            grades, k + 1, s_id)
    ELSE GradeLoop(Format(grade.text, << << "\"" >> \o StrOfInt(grades[k].name) \o << "\"" >> >>),
                   grades, k + 1, s_id)

\* writer.writerow(header_row); writer.writerow([''] * columns)
WriteHeader ==
    LET \* header_row, with the umlauts written as two letters
        header_row ==
            << << "Gruppe" >>, << "Matrikelnummer" >>, << "Vorname" >>, << "Nachname" >>,
               << "TWiki Name" >>, << "Abgabegespr. (1..3)" >>, << >>, << >>, << >>,
               << "Moechte weitermachen" >>, << >>, << >>, << >>,
               << "Uebungen (1..3) Punkte" >>, << >>, << >>, << >>, << "Gesamtpunkte" >>,
               << "Gesamtnote" >> >>
    IN
    /\ ov.state = "opened"
    /\ ov' = [ov EXCEPT !.state = "running",
                        !.rows = << header_row, [k \in DOMAIN header_row |-> << >>] >>]
    /\ UNCHANGED <<svars, rvars, cell, gp, gen, files, doc, stud, cfg>>

\* one iteration of "for s_id, student in enumerate(db)", or the end of the
\* loop
WriteStudentRow ==
    LET \* the cells of the row of the student s_id up to the grade: the data of the
        \* student (five cells whose content is not modelled), eight empty cells,
        \* one reference per assignment of the grading scheme, an empty cell and
        \* the sum
        OverviewCells(scheme, s_id) ==
            << << "s_group" >>, << "matrnr" >>, << "firstname" >>, << "lastname" >>,
               << "linked_wikiname" >> >>
            \o [k \in 1..8 |-> << >>]
            \o [k \in DOMAIN scheme |->
                  Format(<< "=", "'", "{", "}", "'", ".", "{", "}" >>,
                         << StrOfInt(k),
                            spreadsheet_cell_id(s_id + 2, row_total_points(scheme[k]), FALSE) >>).text]
            \o << << >>,
                  Format(<< "=", "S", "U", "M", "(", "{", "}", ":", "{", "}", ")" >>,
                         << spreadsheet_cell_id(13, 2 + s_id, FALSE),
                            spreadsheet_cell_id(15, 2 + s_id, FALSE) >>).text >>
    IN
    /\ ov.state = "running"
    /\ IF ov.s_id < ov.n
       THEN LET grade == GradeLoop([err |-> "", text |-> ov.grade],
                                   SortedByMax(ov.grades), 1, ov.s_id)
            IN  IF grade.err # ""
                THEN ov' = [ov EXCEPT !.state = "failed", !.err = grade.err]
                ELSE ov' = [ov EXCEPT
                              !.rows = Append(@, Append(OverviewCells(ov.scheme, ov.s_id),
                                                        grade.text)),
                              !.grade = grade_recursive,
                              !.s_id = @ + 1]
       ELSE ov' = [ov EXCEPT !.state = "returned"]
    /\ UNCHANGED <<svars, rvars, cell, gp, gen, files, doc, stud, cfg>>

InitTitle ==
    LET \* config.grades: the five grades that Config.from_xml read from the
        \* metadata file (excellent first)
        GradeTables ==
            { << [name |-> 1, min |-> 9, max |-> 10], [name |-> 2, min |-> 7, max |-> 8],
                 [name |-> 3, min |-> 5, max |-> 6], [name |-> 4, min |-> 3, max |-> 4],
                 [name |-> 5, min |-> 0, max |-> 2] >>,
              << [name |-> 1, min |-> 0, max |-> 1], [name |-> 2, min |-> 2, max |-> 3],
                 [name |-> 3, min |-> 4, max |-> 5], [name |-> 4, min |-> 6, max |-> 7],
                 [name |-> 5, min |-> 8, max |-> 12] >>,
              << [name |-> 1, min |-> 9, max |-> 10], [name |-> 2, min |-> 8, max |-> 8],
                 [name |-> 3, min |-> 5, max |-> 6], [name |-> 4, min |-> 3, max |-> 4],
                 [name |-> 5, min |-> 0, max |-> 1] >> }
        \* the exercises of an assignment
        Exercises == { << 1 >>, << 2, 1 >> }
    IN
    /\ \E n \in 0..MaxGroupSize, grades \in GradeTables :
         \E scheme \in UNION { [1..m -> Exercises] : m \in 0..MaxSchemeLen } :
            ov = [state |-> "opened", n |-> n, scheme |-> scheme, grades |-> grades,
                  s_id |-> 0, grade |-> << "=", "{", "}" >>, rows |-> << >>, err |-> ""]
    /\ Idle({"ov"})

NextTitle ==
    \/ WriteHeader
    \/ WriteStudentRow

SpecTitle == InitTitle /\ [][NextTitle]_vars

(***************************************************************************)
(* A roster in use: add, the roster of one group that the generators list, *)
(* and the date options of the read command                                *)
(***************************************************************************)
\* a.add(student) for a new Student.  The call changes the roster a itself;
\* b keeps the roster as it was before the call and cand holds the Student
\* handed over.
Add ==
    /\ op.name = "__init__"
    /\ res.ok
    /\ \E s \in { h[1] : h \in SampleHeaps(1) } :
         LET h1 == Alloc(heap, [s EXCEPT !.gid = NextGid(heap)])
         IN  \E r \in add(h1, a, Len(h1)) :
                /\ heap' = r.heap
                /\ a' = r.db
                /\ res' = [ok |-> r.ok, db |-> r.db, error |-> r.error]
                /\ cand' = [kind |-> "list", students |-> << Len(h1) >>]
    /\ b' = a
    /\ op' = [NoOp EXCEPT !.name = "add", !.self = "a"]
    /\ UNCHANGED <<svars, xvars>>

\* create_group_spreadsheets and create_title_group_spreadsheet for a group
\* of db.all_groups(): res = a.filter(group=group).sorted_by_wikiname(), the
\* students whose columns and rows are written
GroupRoster ==
    /\ op.name = "__init__"
    /\ res.ok
    /\ \E group \in UNION { heap[o].group : o \in Range(a.students) } :
         /\ \E f \in filter(heap, a, [NoKw EXCEPT !.group = << group >>]) :
              \E r \in (IF f.ok THEN sorted_by(f.heap, f.db, "wikiname") ELSE { f }) :
                 /\ heap' = r.heap
                 /\ res' = [ok |-> r.ok, db |-> r.db, error |-> r.error]
         /\ op' = [NoOp EXCEPT !.name = "create", !.self = "a",
                               !.kw = [NoKw EXCEPT !.group = << group >>]]
    /\ UNCHANGED <<cand, a, b>>
    /\ UNCHANGED <<svars, xvars>>

\* students read --filter-newer-than / --filter-older-than on the roster a,
\* with at least one of the two options; an option holds parse_date of its
\* text
ReadByDate ==
    /\ op.name = "__init__"
    /\ res.ok
    /\ \E newer, older \in { << >>, << [sec |-> 2, us |-> 0] >> } :
         /\ newer # << >> \/ older # << >>
         /\ \E n \in (IF newer # << >>
                      THEN filter(heap, a, [NoKw EXCEPT !.regdate_greater = newer])
                      ELSE { Returned(heap, a) }) :
              \E r \in (IF n.ok /\ older # << >>
                        THEN filter(n.heap, n.db, [NoKw EXCEPT !.regdate_smaller = older])
                        ELSE { n }) :
                 /\ heap' = r.heap
                 /\ res' = [ok |-> r.ok, db |-> r.db, error |-> r.error]
         /\ op' = [NoOp EXCEPT !.name = "read", !.self = "a",
                               !.kw = [NoKw EXCEPT !.regdate_greater = newer,
                                                   !.regdate_smaller = older]]
    /\ UNCHANGED <<cand, a, b>>
    /\ UNCHANGED <<svars, xvars>>

NextCmd ==
    \/ Construct
    \/ Add
    \/ GroupRoster
    \/ ReadByDate

SpecCmd == Init /\ [][NextCmd]_vars

(***************************************************************************)
(* The grade table: the dialog of command_init_cli writes the element      *)
(* <grades> of the metadata file and Config.from_xml reads it for the      *)
(* generators.  cfg.file is the element <grades> of the metadata file, one *)
(* element [repr, max, min] of texts per grade, << >> while there is no    *)
(* file; cfg.points is what the dialog has accepted, cfg.grades is           *)
(* config.grades.                                                          *)
(***************************************************************************)
\* the points [mini, maxi] of the five grades, excellent first, that are
\* typed into the dialog or stand in a metadata file
GradePoints ==
    LET \* the ranges of grade k: the range of two points at its place, a
        \* range of one point, a range that reaches further up, and one with
        \* mini above maxi
        Ranges(k) ==
            LET low == 2 * (5 - k)
            IN  { << low, low + 1 >>, << low + 1, low + 1 >>, << low, low + 2 >>,
                  << low + 1, low >> }
    IN  { << p1, p2, p3, p4, p5 >> :
             p1 \in Ranges(1), p2 \in Ranges(2), p3 \in Ranges(3), p4 \in Ranges(4),
             p5 \in Ranges(5) }

\* the elements of <grades> for the points: grade.set('repr', str(i)),
\* grade.set('max', str(maxi)), grade.set('min', str(mini))
GradeElements(points) ==
    [k \in DOMAIN points |->
        [repr |-> StrOfInt(k), max |-> StrOfInt(points[k][2]), min |-> StrOfInt(points[k][1])]]

\* one pass of "while not valid": the five grades are asked for and checked;
\* the elements are appended if the points are valid, otherwise the loop
\* runs again
AskGrades ==
    LET \* valid after the two checks of the loop body
        valid(points) ==
            LET inc(x) == x[1] < x[2]
                \* prev before the pass of "for pts in points" for points[k]
                prev(k) == IF k = 1 THEN points[1][2] + 1 ELSE points[k - 1][1]
            IN  /\ \A k \in DOMAIN points : inc(points[k])
                /\ \A k \in DOMAIN points : points[k][2] = prev(k) - 1
    IN
    /\ cfg.state \in {"init", "asking"}
    /\ cfg.file = << >>
    /\ \E points \in GradePoints :
         cfg' = IF valid(points)
                THEN [cfg EXCEPT !.state = "written", !.points = points,
                                 !.file = GradeElements(points)]
                ELSE [cfg EXCEPT !.state = "asking"]
    /\ UNCHANGED <<svars, rvars, cell, gp, gen, files, doc, stud, ov>>

\* create: config.from_xml(read_xml(metadata)) for the metadata file;
\* add_grade(int(repr), min, max) for every grade of Config.all_grades
ConfigFromXml ==
    /\ cfg.state \in {"init", "written"}
    /\ cfg.file # << >>
    /\ cfg' = [cfg EXCEPT
                 !.state = "loaded",
                 !.grades = [k \in DOMAIN cfg.file |->
                                [name |-> IntOfStr(cfg.file[k].repr),
                                 min |-> IntOfStr(cfg.file[k].min),
                                 max |-> IntOfStr(cfg.file[k].max)]]]
    /\ UNCHANGED <<svars, rvars, cell, gp, gen, files, doc, stud, ov>>

\* there is no metadata file, or one that was not written by the dialog
InitGrades ==
    /\ \E file \in { << >> } \cup { GradeElements(p) : p \in GradePoints } :
         cfg = [state |-> "init", file |-> file, points |-> << >>, grades |-> << >>]
    /\ Idle({"cfg"})

NextGrades ==
    \/ AskGrades
    \/ ConfigFromXml

SpecGrades == InitGrades /\ [][NextGrades]_vars

(***************************************************************************)
(* Properties of the rosters                                               *)
(***************************************************************************)
\* the Student objects of a roster
Objs(db) == Range(db.students)

\* the matriculation numbers of a roster
Numbers(db) == { heap[o].matrnr : o \in Objs(db) }

\* the attribute values of the records of a roster
Records(db) == { Fields(heap[o]) : o \in Objs(db) }

\* the attribute values of the record of db with the number m
RecordOf(db, m) == Fields(heap[CHOOSE o \in Objs(db) : heap[o].matrnr = m])

\* the three roster invariants
UniqueNumbers(db) ==
    \A j, k \in DOMAIN db.students :
        j # k => heap[db.students[j]].matrnr # heap[db.students[k]].matrnr
UniqueIdentities(db) ==
    \A j, k \in DOMAIN db.students :
        j # k => wikiname(heap[db.students[j]]) # wikiname(heap[db.students[k]])
OneRealGroup(db) ==
    \A o \in Objs(db) : Cardinality(heap[o].group \ {0}) <= 1

\* a call has returned a roster that nothing has changed since
HasReturned == res.ok /\ res.db.kind # "none" /\ ~ op.mutated

\* C1: every roster returned by the constructor, union, difference,
\* filter, the sorted_by_* operations, from_xml and parse_student_csv
\* satisfies the three roster invariants: unique matriculation numbers,
\* unique identities, at most one non-zero group per record
ReturnedRosterIsConsistent ==
    HasReturned =>
        UniqueNumbers(res.db) /\ UniqueIdentities(res.db) /\ OneRealGroup(res.db)

\* union has returned a roster in which the groups of two records were merged
UnionHasMerged ==
    /\ HasReturned
    /\ op.name = "union"
    /\ op.self # op.other
    /\ Len(res.db.students) = 2
    /\ \E m \in Numbers(a) \cap Numbers(b) :
          RecordOf(a, m).group # RecordOf(b, m).group

\* C2: whenever union(x, y) returns, the result holds exactly one record
\* per number of x or y; for a number of both it has x's field values with
\* the groups of both, for a number of one roster it equals that record
UnionMergesByNumber ==
    (HasReturned /\ op.name = "union") =>
        LET x == Roster(op.self)
            y == Roster(op.other)
        IN  /\ Numbers(res.db) = Numbers(x) \cup Numbers(y)
            /\ Len(res.db.students) = Cardinality(Numbers(res.db))
            /\ \A m \in Numbers(res.db) :
                  RecordOf(res.db, m) =
                      IF m \in Numbers(x) /\ m \in Numbers(y)
                      THEN [RecordOf(x, m) EXCEPT
                               !.group = RecordOf(x, m).group \cup RecordOf(y, m).group]
                      ELSE IF m \in Numbers(x) THEN RecordOf(x, m)
                      ELSE RecordOf(y, m)

\* union has returned with a number of both rosters, whose two records
\* differ in their groups and in their names, and a number of one roster
UnionOfOverlappingRosters ==
    /\ UnionHasMerged
    /\ \E m \in Numbers(a) \cap Numbers(b) :
          RecordOf(a, m).firstname # RecordOf(b, m).firstname
    /\ Numbers(a) # Numbers(b)

\* C3: filter(a, predicates) returns exactly the records of a that satisfy
\* every supplied predicate, for every value a predicate can be supplied with
FilterReturnsExactlyTheMatches ==
    LET \* what a predicate of filter() demands of a record, for every value it
        \* is supplied with
        Satisfies(s, kw) ==
            /\ kw.matrnr # << >> => s.matrnr = kw.matrnr[1]
            /\ kw.not_matrnr # << >> => s.matrnr # kw.not_matrnr[1]
            /\ kw.group # << >> => kw.group[1] \in s.group
            /\ kw.firstname # << >> => Lower(s.firstname) = Lower(kw.firstname[1])
            /\ kw.lastname # << >> => Lower(s.lastname) = Lower(kw.lastname[1])
            /\ kw.wikiname # << >> => wikiname(s) = kw.wikiname[1]
            /\ kw.degree # << >> => s.degree = kw.degree[1]
            /\ kw.email # << >> => s.email = kw.email[1]
            /\ kw.grade # << >> => s.grade = kw.grade[1]
            /\ kw.regdate # << >> =>
                  IF kw.regdate_smaller = << TRUE >> THEN DateLess(s.regdate, kw.regdate[1])
                  ELSE IF kw.regdate_greater = << TRUE >> THEN DateLess(kw.regdate[1], s.regdate)
                  ELSE s.regdate = kw.regdate[1]
    IN
    (HasReturned /\ op.name = "filter") =>
        Records(res.db) = { r \in Records(a) : Satisfies(r, op.kw) }

\* C4: difference(x, y) returns exactly the records of x whose number does
\* not occur in y: none of its numbers is in y, and with the records of x
\* whose number is in y it gives x again
DifferenceIsComplement ==
    op.name = "difference" =>
        LET x == Roster(op.self)
            y == Roster(op.other)
            common == { r \in Records(x) : r.matrnr \in Numbers(y) }
        IN  /\ res.ok
            /\ ~ op.mutated =>
                  /\ Numbers(res.db) \cap Numbers(y) = {}
                  /\ Records(res.db) \cap common = {}
                  /\ Records(res.db) \cup common = Records(x)
                  /\ Len(res.db.students) = Cardinality(Records(res.db))

\* difference has returned some but not all records of its receiver, and a
\* removed record differs from the record of the same number in the argument
DifferenceRemovedSome ==
    /\ HasReturned
    /\ op.name = "difference"
    /\ Len(res.db.students) = 1
    /\ Len(Roster(op.self).students) = 2
    /\ \E m \in Numbers(a) \cap Numbers(b) : RecordOf(a, m) # RecordOf(b, m)

\* C5: union(a, a) succeeds and equals a: the same numbers, and every
\* record equal to a's record in every field
UnionWithItselfIsIdentity ==
    (op.name = "union" /\ op.self = op.other) =>
        /\ res.ok
        /\ ~ op.mutated =>
              /\ Records(res.db) = Records(Roster(op.self))
              /\ Len(res.db.students) = Len(Roster(op.self).students)

\* union(a, a) has returned for a roster of two records
UnionWithItselfOfTwo ==
    /\ HasReturned
    /\ op.name = "union"
    /\ op.self = op.other
    /\ Len(a.students) = 2
    /\ \E o \in Objs(a) : heap[o].group = {0, 2}

\* the Student objects of the rosters a and b
InputObjs == Objs(a) \cup Objs(b)

\* C6: union, difference and filter are pure: when one of them returns or
\* fails, a and b hold the same objects with the same attribute values and
\* the same set objects as before, no Student and no set object of the
\* result is one of a or b, and a later change of a record of the result
\* in place leaves every object of a and b as it was
OperationsArePure ==
    [][ /\ (op'.name \in {"union", "difference", "filter"} /\ op'.name # op.name) =>
             /\ a' = a
             /\ b' = b
             /\ \A o \in InputObjs : heap'[o] = heap[o]
             /\ res'.ok =>
                   /\ Range(res'.db.students) \cap InputObjs = {}
                   /\ \A o \in Range(res'.db.students) : \A p \in InputObjs :
                         heap'[o].gid # heap'[p].gid
        /\ (op'.mutated /\ ~ op.mutated) =>
             /\ a' = a
             /\ b' = b
             /\ \A o \in InputObjs : heap'[o] = heap[o]
      ]_vars

\* a record of the result of a union that merged groups was changed in
\* place afterwards
ResultChangedAfterUnion ==
    /\ op.mutated
    /\ op.name = "union"
    /\ op.self # op.other
    /\ Numbers(a) \cap Numbers(b) # {}
    /\ \E o \in Objs(res.db) : LaterGroup \in heap[o].group

\* C7: consistency_check(cand) raises if and only if cand has two records
\* with the same number, two with the same identity or a record with more
\* than one non-zero group; the error names the colliding number, the
\* colliding identity or the offending record; cand and its records are
\* left as they were
CheckFailsExactlyOnViolation ==
    [][ (op'.name = "consistency_check" /\ op.name = "") =>
          /\ cand' = cand
          /\ heap' = heap
          /\ res'.ok <=>
                (UniqueNumbers(cand) /\ UniqueIdentities(cand) /\ OneRealGroup(cand))
          /\ ~ res'.ok =>
                LET e == res'.error
                    pairs == { p \in (DOMAIN cand.students) \X (DOMAIN cand.students) :
                                 p[1] # p[2] }
                IN  /\ e.exc = "ValueError"
                    /\ e.what \in {"Matriculation number", "Wikiname", "Groups"}
                    /\ e.what = "Matriculation number" =>
                          \E p \in pairs :
                             /\ heap[cand.students[p[1]]].matrnr = e.matrnr
                             /\ heap[cand.students[p[2]]].matrnr = e.matrnr
                    /\ e.what = "Wikiname" =>
                          \E p \in pairs :
                             /\ wikiname(heap[cand.students[p[1]]]) = e.name
                             /\ wikiname(heap[cand.students[p[2]]]) = e.name
                    /\ e.what = "Groups" =>
                          /\ e.student \in Objs(cand)
                          /\ Cardinality(heap[e.student].group \ {0}) > 1
                          /\ e.name = wikiname(heap[e.student])
      ]_vars

\* consistency_check has raised for a collection whose only violation is a
\* record with two non-zero groups
CheckRejectedGroups ==
    /\ op.name = "consistency_check"
    /\ ~ res.ok
    /\ res.error.what = "Groups"
    /\ Len(cand.students) = 2

(***************************************************************************)
(* Properties of the splitter                                              *)
(***************************************************************************)
\* C8: after the splitter has finished, no bucket holds more references
\* than the cap max_values_per_sum (12)
SplitterRespectsCap ==
    phase = "settled" =>
        \A k \in DOMAIN consider : Len(consider[k]) <= max_values_per_sum

\* C9: at every step of the splitter loop and at its end, the buckets
\* together hold every original criterion-row reference exactly once
SplitterKeepsReferences ==
    phase \in {"split", "settled", "failed"} =>
        /\ Len(Flatten(consider)) = Len(rows)
        /\ Range(Flatten(consider)) = Range(rows)

\* a reference has been evicted and pushed into a later bucket, and the
\* loop has ended
SplitterHasEvicted ==
    /\ phase = "settled"
    /\ Len(consider) > 2
    /\ \A k \in DOMAIN consider : consider[k] # <<>>

\* C10: with fewer than 120 criterion rows the generation does not fail;
\* only 120 or more rows make it fail
SplitterCompletesBelowLimit ==
    phase = "failed" => Len(rows) >= RowLimit

\* C11: every SUM written by create_group_spreadsheets, in the row
\* "Gesamt" and in every row "[ split ]", has at most max_values_per_sum
\* (12) arguments
SumsRespectCap ==
    \A k \in DOMAIN sheet : \A s \in DOMAIN sheet[k].cells :
        Len(sheet[k].cells[s]) <= max_values_per_sum

\* C12: when the grid is written, the cells that the SUM of a student in
\* the row "Gesamt" adds besides the terms of the first bucket are exactly
\* the cells of the rows written below it ("Deadline verpasst",
\* "Bonuspunkte" and every row "[ split ]") in the column of that student
TotalAddsExactlyTheRowsBelow ==
    LET \* the name of the cell in column x and row y (both counted from 0) for a
        \* column below 26: the letter of the column and the row counted from 1
        CellName(x, y) == << Uppers[x + 1] >> \o StrOfInt(y + 1)
    IN
    phase = "written" =>
        \A s \in DOMAIN sheet[1].cells :
            LET cells == { k \in DOMAIN sheet[1].cells[s] :
                             sheet[1].cells[s][k].kind = "cell" }
            IN  /\ { sheet[1].cells[s][k].cell : k \in cells }
                      = { CellName(s + 1, sheet[k].index) : k \in 2..Len(sheet) }
                /\ Cardinality(cells) = Len(sheet) - 1

(***************************************************************************)
(* Properties of the output files                                          *)
(***************************************************************************)

\* C15: when the generation of the grids of a group fails (the row limit, an
\* error of the splitter, an assignment missing in the grading scheme) or is
\* aborted by the user, no output file of the call has been created or
\* truncated.
NoPartialOutput ==
    LET \* the call has raised, or has returned after the user declined
        RunFailed == gen.state = "running" /\ phase = "failed"
        RunAborted == gen.state = "aborted"
    IN
    (RunFailed \/ RunAborted) => \A k \in DOMAIN files : files[k].now = files[k].before

\* C16: write_xml, create_group_spreadsheets and
\* create_title_group_spreadsheet open a file that exists for writing only
\* after the user has answered the overwrite question for it affirmatively;
\* when the user declines, the file keeps its content and the operation
\* ends without an error.
OverwriteOnlyConfirmed ==
    LET \* the answer begins with a letter of "yes" or "ja"
        Affirmative(answer) == answer # << >> /\ LowerChar(answer[1]) \in {"y", "j"}
    IN
    \A k \in DOMAIN files :
        /\ files[k].before = "old" /\ files[k].now = "new"
              => files[k].answer # << >> /\ Affirmative(files[k].answer[1])
        /\ files[k].answer # << >> /\ ~ Affirmative(files[k].answer[1])
              /\ files[k].answer[1] # << >>
              => files[k].now = "old" /\ phase # "failed"

(***************************************************************************)
(* Properties of to_xml and from_xml                                       *)
(***************************************************************************)

\* C17: for every valid roster r, from_xml(to_xml(r)) is a roster with the
\* numbers of r whose records equal those of r in every field: groups, last
\* and first name, identity override, degree programme, registration
\* timestamp, email and grade.
RoundTripKeepsEveryField ==
    LET \* the roster read back from the document that a.to_xml() returned
        ReadBack == op.name = "from_xml" /\ op.other = "a" /\ doc.state = "written"
    IN
    ReadBack =>
        /\ res.ok
        /\ Numbers(res.db) = Numbers(a)
        /\ \A m \in Numbers(a) : RecordOf(res.db, m) = RecordOf(a, m)

\* C18: StudentDatabase.to_xml emits the entries in strictly ascending order
\* of matriculation number, whatever the order or the container (set or
\* list) in which the roster holds its records, and every record exactly
\* once.
EntriesAscendAndAreComplete ==
    LET \* the matriculation number that the entry of a student holds
        NumberOf(entry) == IntOfStr(entry[1].text[1])
    IN
    doc.state = "written" =>
        /\ \A j, k \in DOMAIN doc.students :
              j < k => NumberOf(doc.students[j]) < NumberOf(doc.students[k])
        /\ Len(doc.students) = Len(a.students)
        /\ \A o \in Objs(a) :
              Cardinality({ k \in DOMAIN doc.students :
                              doc.students[k] = to_xml(heap[o]) }) = 1

\* a list that holds two records in descending order of their numbers has
\* been written
DescendingListWritten ==
    /\ doc.state = "written"
    /\ a.kind = "list"
    /\ Len(a.students) >= 2
    /\ heap[a.students[1]].matrnr > heap[a.students[2]].matrnr

(***************************************************************************)
(* Properties of Student.wikiname                                          *)
(***************************************************************************)
\* C19: the wikiname of a record equals the override stored on it whenever
\* one has been stored, whatever its first and last name are and however
\* they were changed afterwards; the name derived from first and last name
\* is used only for a record without a stored override.
OverrideTakesPrecedence ==
    stud.read # << >> =>
        stud.read[1] = IF stud.stored # << >> THEN stud.stored[1]
                       ELSE derived_wikiname(stud)

\* the wikiname was read after an override was stored and a name was set,
\* and the names derive another wikiname
OverrideReadAfterRename ==
    /\ stud.read # << >>
    /\ stud.stored # << >>
    /\ stud.renamed
    /\ derived_wikiname(stud) # stud.stored[1]

\* C20: with no override stored, the wikiname is a function of first and
\* last name only: the capitalised tokens of "first last", split at
\* whitespace, hyphens and apostrophes after the diacritics are stripped,
\* joined without separator; it holds ASCII characters only and no
\* whitespace, hyphen or apostrophe.
IdentityIsDerivedFromNames ==
    LET \* the tokens of str: the maximal runs of characters that are not blank,
        \* hyphen or apostrophe
        Tokens(str) == Split(Replace(Replace(str, "-", " "), "'", " "))
        \* a token with its first letter in upper case and the others in lower case
        Capitalised(token) ==
            [k \in DOMAIN token |-> IF k = 1 THEN UpperChar(token[k]) ELSE LowerChar(token[k])]
        \* the identity as described: "first last" stripped of its diacritics,
        \* split, every token capitalised, joined
        DerivedIdentity(first, last) ==
            LET tokens == Tokens(NormalizeAscii(first \o << " " >> \o last))
            IN  Flatten([k \in DOMAIN tokens |-> Capitalised(tokens[k])])
        Ascii == Range(Uppers) \cup Range(Lowers) \cup Range(Digits) \cup {" ", "-", "'"}
    IN
    stud.read # << >> /\ stud.stored = << >> =>
        /\ stud.read[1] = DerivedIdentity(stud.firstname, stud.lastname)
        /\ Range(stud.read[1]) \subseteq Ascii \ {" ", "-", "'"}

(***************************************************************************)
(* Properties of parse_grading_points                                      *)
(***************************************************************************)

\* C14: parse_grading_points returns a scheme only for a table in which the
\* absolute points of the criterion rows listed under every exercise row sum
\* to the total that row declares, and the totals of the exercise rows of
\* every assignment sum to the total the assignment row declares; every
\* other table is rejected.
AcceptedTablesSumUp ==
    LET \* the kind of a row, as the branches of the loop tell them apart
        IsAssignmentRow(row) == bold(row[1]) /\ row[2] = << >>
        IsCriterionRow(row) == ~ IsAssignmentRow(row) /\ Strip(row[1]) = << >>
        IsExerciseRow(row) == ~ IsAssignmentRow(row) /\ ~ IsCriterionRow(row)
        \* the rows after row j up to the next row that satisfies Ends
        Below(table, j, Ends(_)) ==
            LET stops == { k \in (j + 1)..Len(table) : Ends(table[k]) } \cup { Len(table) + 1 }
            IN  SubSeq(table, j + 1, Min(stops) - 1)
        Declared(row) == IntOfStr(Strip(row[3]))
        NotCriterion(row) == ~ IsCriterionRow(row)
        \* the absolute points of the criterion rows listed under exercise row j
        ListedCriterionPoints(table, j) ==
            LET under == Below(table, j, NotCriterion)
            IN  SumSeq([k \in DOMAIN under |-> Abs(Declared(under[k]))])
        \* the declared totals of the exercise rows listed under assignment row j
        ListedExerciseTotals(table, j) ==
            LET under == Below(table, j, IsAssignmentRow)
            IN  SumSeq([k \in DOMAIN under |->
                           IF IsExerciseRow(under[k]) THEN Declared(under[k]) ELSE 0])
        TableSumsEqual(table) ==
            \A j \in DOMAIN table :
                /\ IsExerciseRow(table[j]) => ListedCriterionPoints(table, j) = Declared(table[j])
                /\ IsAssignmentRow(table[j]) => ListedExerciseTotals(table, j) = Declared(table[j])
    IN
    gp.state = "returned" => TableSumsEqual(gp.table)

\* C26: parse_grading_points reads the rows in order.  An assignment row
\* opens its assignment and clears the exercise; an exercise row is
\* accepted only after an assignment row; a criterion row is accepted only
\* after an exercise row that follows the last assignment row; rows in any
\* other order end the parse with an error; an accepted criterion is
\* recorded under the last exercise row of the last assignment row and
\* nowhere else; a name that is opened or recorded is put behind the names
\* that are there.  The scheme returned is the one the loop has recorded;
\* for a table that repeats no name it is the table, row by row.
RowsFollowTheProtocol ==
    LET t == gp.table
        IsAssignmentRow(row) == bold(row[1]) /\ row[2] = << >>
        IsCriterionRow(row) == ~ IsAssignmentRow(row) /\ Strip(row[1]) = << >>
        IsExerciseRow(row) == ~ IsAssignmentRow(row) /\ ~ IsCriterionRow(row)
        \* the name an assignment or exercise row opens, the label of a
        \* criterion row
        NameOf(row) ==
            IF IsAssignmentRow(row) THEN SubSeq(Strip(row[1]), 2, Len(Strip(row[1])) - 1)
            ELSE IF IsExerciseRow(row) THEN Strip(row[1])
            ELSE Strip(row[2])
        Last(S) == IF S = { } THEN 0 ELSE CHOOSE j \in S : \A m \in S : m <= j
        \* the last assignment row before row k, and the last exercise row
        \* before row k that follows it; 0 if there is none
        AssignmentAt(k) == Last({ j \in 1..(k - 1) : IsAssignmentRow(t[j]) })
        ExerciseAt(k) ==
            Last({ j \in (AssignmentAt(k) + 1)..(k - 1) : IsExerciseRow(t[j]) })
        Keys(d) == [p \in DOMAIN d |-> d[p].key]
        Has(d, key) == \E p \in DOMAIN d : d[p].key = key
        Get(d, key) == IF Has(d, key) THEN DictGet(d, key) ELSE << >>
        \* the keys of d, with the name behind them if it is new
        Kept(d, e, name) ==
            Keys(e) = IF Has(d, name) THEN Keys(d) ELSE Append(Keys(d), name)
        Step(k) ==
            LET before == ParseRows(SubSeq(t, 1, k - 1))
                after == ParseRows(SubSeq(t, 1, k))
                row == t[k]
                name == NameOf(row)
                A == NameOf(t[AssignmentAt(k)])
                E == NameOf(t[ExerciseAt(k)])
            IN  before.state = "running" =>
                  IF IsAssignmentRow(row)
                  THEN after.state = "running" =>
                          /\ after.assignment = << name >>
                          /\ after.exercise = << >>
                          /\ Kept(before.grading, after.grading, name)
                          /\ DictGet(after.grading, name) = << >>
                          /\ \A x \in Range(Keys(before.grading)) \ { name } :
                                DictGet(after.grading, x) = DictGet(before.grading, x)
                  ELSE IF IsExerciseRow(row)
                  THEN /\ AssignmentAt(k) = 0 => after.state # "running"
                       /\ after.state = "running" =>
                             /\ AssignmentAt(k) # 0
                             /\ after.assignment = << A >>
                             /\ after.exercise = << name >>
                             /\ Keys(after.grading) = Keys(before.grading)
                             /\ Kept(DictGet(before.grading, A), DictGet(after.grading, A), name)
                             /\ DictGet(DictGet(after.grading, A), name) = << >>
                  ELSE /\ (AssignmentAt(k) = 0 \/ ExerciseAt(k) = 0) => after.state # "running"
                       /\ after.state = "running" =>
                             /\ AssignmentAt(k) # 0 /\ ExerciseAt(k) # 0
                             /\ after.assignment = << A >> /\ after.exercise = << E >>
                             /\ Keys(after.grading) = Keys(before.grading)
                             /\ \A x \in Range(Keys(before.grading)) :
                                   LET old == DictGet(before.grading, x)
                                       new == DictGet(after.grading, x)
                                   IN  /\ Keys(new) = Keys(old)
                                       /\ \A y \in Range(Keys(old)) :
                                             IF x = A /\ y = E
                                             THEN /\ Kept(DictGet(old, y), DictGet(new, y), name)
                                                  /\ DictGet(DictGet(new, y), name)
                                                        = IntOfStr(Strip(row[3]))
                                                  /\ \A z \in Range(Keys(DictGet(old, y))) \ { name } :
                                                        DictGet(DictGet(new, y), z)
                                                           = DictGet(DictGet(old, y), z)
                                             ELSE DictGet(new, y) = DictGet(old, y)
        \* no assignment row repeats a name, no exercise row one of its
        \* assignment, no criterion row a label of its exercise
        NoNameTwice ==
            \A j, k \in DOMAIN t :
                (j < k /\ NameOf(t[j]) = NameOf(t[k])) =>
                    ~ \/ IsAssignmentRow(t[j]) /\ IsAssignmentRow(t[k])
                      \/ /\ IsExerciseRow(t[j]) /\ IsExerciseRow(t[k])
                         /\ AssignmentAt(j) = AssignmentAt(k)
                      \/ /\ IsCriterionRow(t[j]) /\ IsCriterionRow(t[k])
                         /\ AssignmentAt(j) = AssignmentAt(k)
                         /\ ExerciseAt(j) = ExerciseAt(k)
        \* the table as a scheme: the rows that satisfy Is and belong to the
        \* row at, in the order of the table, each with what Val gives
        Items(Is(_), At(_), at, Val(_)) ==
            LET listed == SortedSeq({ k \in DOMAIN t : Is(t[k]) /\ At(k) = at })
            IN  [p \in DOMAIN listed |-> [key |-> NameOf(t[listed[p]]), val |-> Val(listed[p])]]
        Points(k) == IntOfStr(Strip(t[k][3]))
        Criteria(k) == Items(IsCriterionRow, ExerciseAt, k, Points)
        ExercisesOf(k) == Items(IsExerciseRow, AssignmentAt, k, Criteria)
        Zero(k) == 0
        Scheme == Items(IsAssignmentRow, Zero, 0, ExercisesOf)
    IN
    gp.state # "called" =>
        /\ \A k \in DOMAIN t : Step(k)
        /\ gp.state = "returned" =>
              /\ gp.scheme = ParseRows(t).grading
              /\ NoNameTwice => gp.scheme = Scheme

\* a table of an assignment, an exercise and two criteria, one of them with
\* negative points, was returned
TwoCriteriaParsed ==
    /\ gp.state = "returned"
    /\ Len(gp.table) = 4
    /\ Len(gp.scheme) = 1
    /\ Len(gp.scheme[1].val) = 1
    /\ Len(gp.scheme[1].val[1].val) = 2
    /\ gp.scheme[1].val[1].val[2].val < 0

(***************************************************************************)
(* Properties of spreadsheet_cell_id                                       *)
(***************************************************************************)
\* the letters of the column x: 'A'..'Z', then 'AA'..'ZZ'
ColumnLetters(x) ==
    IF x < 26 THEN << Uppers[x + 1] >>
    ELSE << Uppers[(x \div 26)], Uppers[(x % 26) + 1] >>

\* C13: for a column in 0..675 spreadsheet_cell_id returns the letters of
\* the column followed by the row counted from 1, in the absolute form
\* with '$' before the letters and before the row; for a column from 676
\* on it raises an error
CellIdIsLettersAndRow ==
    cell.state # "called" =>
        IF cell.x <= 675
        THEN /\ cell.state = "returned"
             /\ cell.text =
                   IF cell.fixed
                   THEN << "$" >> \o ColumnLetters(cell.x) \o << "$" >> \o StrOfInt(cell.y + 1)
                   ELSE ColumnLetters(cell.x) \o StrOfInt(cell.y + 1)
        ELSE cell.state = "ValueError"

(***************************************************************************)
(* Properties of the overview                                              *)
(***************************************************************************)
\* the rows of the students in the overview (after the two header rows)
StudentRows == SubSeq(ov.rows, 3, Len(ov.rows))

\* each grade's minimum is the next lower grade's maximum plus one
Contiguous(grades) ==
    LET asc == SortedByMax(grades)
    IN  /\ grades # << >>
        /\ \A k \in DOMAIN asc : asc[k].min <= asc[k].max
        /\ \A k \in 2..Len(asc) : asc[k].min = asc[k - 1].max + 1

\* the grade that the formula f yields for the total t, the cell it tests
\* and the names in it
GradeOf(f, t) ==
    LET First(e, c) ==
            IF \E k \in DOMAIN e : e[k] = c THEN Min({ k \in DOMAIN e : e[k] = c }) ELSE 0
        RECURSIVE Expr(_)
        Expr(e) ==
            IF e = << >> THEN << "?" >>
            ELSE IF e[1] = "\"" THEN SubSeq(e, 2, Len(e) - 1)
            ELSE LET lt == First(e, "<")
                     cm == First(e, ",")
                     quote == cm + 1 + First(SubSeq(e, cm + 2, Len(e)), "\"")
                 IN  IF lt = 0 \/ cm = 0 \/ ~ IsDigits(SubSeq(e, lt + 1, cm - 1)) THEN << "?" >>
                     ELSE IF t < NatOfStr(SubSeq(e, lt + 1, cm - 1))
                     THEN SubSeq(e, cm + 2, quote - 1)
                     ELSE Expr(SubSeq(e, quote + 2, Len(e) - 1))
    IN  IF f = << >> \/ f[1] # "=" THEN << "?" >> ELSE Expr(Tail(f))

SumCoversAssignmentColumns ==
    LET n == Len(ov.scheme)
        \* the cell that the first comparison of the formula f tests
        Tested(f) ==
            LET lt == Min({ k \in DOMAIN f : f[k] = "<" } \cup { Len(f) + 1 })
            IN  SubSeq(f, 5, lt - 1)
    IN  n >= 1 =>
            \A r \in DOMAIN StudentRows :
                LET row == StudentRows[r]
                    line == StrOfInt(r + 2)
                IN  /\ row[13 + n + 2]
                         = << "=", "S", "U", "M", "(" >> \o ColumnLetters(13) \o line
                           \o << ":" >> \o ColumnLetters(12 + n) \o line \o << ")" >>
                    /\ Tested(row[Len(row)]) = ColumnLetters(13 + n + 1) \o line

\* no two records of x and y with different numbers have the same identity
NoSharedIdentity(x, y) ==
    \A o \in Objs(x), p \in Objs(y) :
        heap[o].matrnr # heap[p].matrnr => wikiname(heap[o]) # wikiname(heap[p])

\* the groups of x and y for a number of both have at most one group
\* other than 0 between them
GroupsAgree(x, y) ==
    \A m \in Numbers(x) \cap Numbers(y) :
        Cardinality((RecordOf(x, m).group \cup RecordOf(y, m).group) \ {0}) <= 1

\* C28 as stated: union(x, y) of two valid rosters returns whenever no two
\* records of x and y with different numbers share an identity
UnionReturnsWithoutSharedIdentity ==
    (op.name = "union" /\ NoSharedIdentity(Roster(op.self), Roster(op.other))) => res.ok

\* C28: union(x, y) of two valid rosters returns whenever no two records of
\* x and y with different numbers share an identity and no number of both
\* has two different non-zero groups in x and y together
UnionReturnsWhenGroupsAgree ==
    (/\ op.name = "union"
     /\ NoSharedIdentity(Roster(op.self), Roster(op.other))
     /\ GroupsAgree(Roster(op.self), Roster(op.other))) => res.ok

\* union has returned for two rosters with a number of both that is in group
\* 0 in one and in another group in the other, and a number of one roster
UnionReturnedForCommonNumber ==
    /\ op.name = "union"
    /\ res.ok
    /\ op.self # op.other
    /\ \E m \in Numbers(a) \cap Numbers(b) :
          /\ RecordOf(a, m).group = {0}
          /\ RecordOf(b, m).group \ {0} # {}
    /\ Numbers(b) \ Numbers(a) # {}

(***************************************************************************)
(* Properties of a roster in use                                           *)
(***************************************************************************)
\* C23: add(s) for a number already in the roster returns when the merged
\* record is consistent, keeps the number of records and gives the record
\* the union of its groups and those of s; for a new number that passes the
\* checks the roster gains a copy of s
AddMergesGroups ==
    op.name = "add" =>
        LET s == heap[cand.students[1]]
            merged == s.group \cup RecordOf(b, s.matrnr).group
        IN  IF s.matrnr \in Numbers(b)
            THEN Cardinality(merged \ {0}) <= 1 =>
                    /\ res.ok
                    /\ Cardinality(Objs(a)) = Cardinality(Objs(b))
                    /\ Records(a) = (Records(b) \ { RecordOf(b, s.matrnr) })
                           \cup { [RecordOf(b, s.matrnr) EXCEPT !.group = merged] }
            ELSE res.ok => Records(a) = Records(b) \cup { Fields(s) }

\* C29: when add(s) raises the ValueError of consistency_check, the roster
\* holds the records it held before the call
FailedAddLeavesRoster ==
    (op.name = "add" /\ ~ res.ok /\ res.error.exc = "ValueError") =>
        Records(a) = Records(b)

\* C24: the roster the generators list for a group of the roster holds
\* exactly the students with that group, each once, in ascending order of
\* identity
GroupRosterIsTheGroup ==
    (op.name = "create" /\ res.ok) =>
        LET listed == res.db.students
        IN  /\ { Fields(heap[o]) : o \in Range(listed) }
                 = { Fields(heap[o]) : o \in { x \in Objs(a) : op.kw.group[1] \in heap[x].group } }
            /\ \A j, k \in DOMAIN listed :
                 j < k => StrLess(wikiname(heap[listed[j]]), wikiname(heap[listed[k]]))

\* C25: read with --filter-newer-than d lists only records registered after
\* d, with --filter-older-than d only records registered before d
ReadListsTheRightSide ==
    (op.name = "read" /\ res.ok) =>
        \A o \in Objs(res.db) :
            /\ op.kw.regdate_greater # << >> =>
                  DateLess(op.kw.regdate_greater[1], heap[o].regdate)
            /\ op.kw.regdate_smaller # << >> =>
                  DateLess(heap[o].regdate, op.kw.regdate_smaller[1])

(***************************************************************************)
(* Properties of the grade table                                           *)
(***************************************************************************)
\* C27: the grade table that Config.from_xml hands to the generators is
\* contiguous, each grade's minimum being the next lower grade's maximum
\* plus one; the dialog writes the grades only for contiguous points and
\* writes nothing before it asks again
GradeTablesAreContiguous ==
    LET AsGrades(points) ==
            [k \in DOMAIN points |-> [name |-> k, min |-> points[k][1], max |-> points[k][2]]]
    IN  /\ cfg.state = "loaded" => Contiguous(cfg.grades)
        /\ cfg.state = "written" => Contiguous(AsGrades(cfg.points))
        /\ cfg.state = "asking" => cfg.file = << >>

====
